---- MODULE Spec2Model ----
(***************************************************************************)
(* LinkoWiki: the persisted session record, the wiki filesystem and the    *)
(* two interactive front-ends that stage, apply and reject the actions a   *)
(* model result proposes:                                                  *)
(*   - the admin shell   (tools/linkowiki-admin.py, session_shell)         *)
(*   - the Rich CLI      (tools/linkowiki-cli.py, RichSessionShell)        *)
(* Both work on the one session file of tools/session/manager.py.          *)
(***************************************************************************)
EXTENDS Integers, Sequences, FiniteSets, TLC

VARIABLES
    session,            \* .linkowiki-session.json: NoSession or the record
    fs,                 \* the filesystem: location -> node
    changelog,          \* wiki/.changelog, one entry per log_change call
    shell,              \* the front-end process that runs: "none", "admin", "cli"
    cliSession,         \* RichSessionShell.session, the CLI's in-memory copy
    autoexec_enabled,   \* RichSessionShell.autoexec_enabled
    nRequests,          \* number of model requests made so far (bounded)
    submitted,          \* history variable: prompts submitted in this session
    last,               \* history variable: what the last handler did
    catalog,            \* etc/providers.json as the registry process finds it
    environ,            \* os.environ of the registry process: key -> value
    registry,           \* tools.ai.providers._registry, the singleton
    call,               \* history variable: the last registry or factory call
    memory,             \* RichSessionShell.memory, the ContextMemory instance
    memory_file,        \* .linkowiki-memory.json: NoMemoryFile or the record
    memory_writable,    \* whether MEMORY_FILE.write_text succeeds
    memcall,            \* history variable: the last ContextMemory call
    conversation        \* conversation_history, last_displayed_turn and
                        \* last_user_input of the RichSessionShell

\* the session file, the wiki and the two front-ends
sessVars == <<session, fs, changelog, shell, cliSession, autoexec_enabled,
              nRequests, submitted, last>>

\* one process that uses the provider registry and the agent factory
regVars == <<catalog, environ, registry, call>>

\* the contextual memory and the conversation the Rich CLI displays
memVars == <<memory, memory_file, memory_writable, memcall, conversation>>

vars == <<sessVars, regVars, memVars>>

----------------------------------------------------------------------------
(* Bounds of the model *)

\* model requests (prompt submissions) over the whole run
MaxRequests == 2

\* remember_action calls made on a ContextMemory instance directly
MaxMemoryCalls == 3

----------------------------------------------------------------------------
(* Content: a text is a sequence of chunks; its length is the sum of the   *)
(* chunk lengths, so the 50,000 character cap is decided by arithmetic.    *)

MaxContentLen == 50000

None == <<"None">>

\* the chunk "BIG" stands for a text of exactly the cap's length
ChunkLen(c) == IF c = "BIG" THEN MaxContentLen ELSE 1

RECURSIVE ContentLen(_)
ContentLen(text) ==
    IF text = <<>> THEN 0 ELSE ChunkLen(Head(text)) + ContentLen(Tail(text))

\* Python truthiness of Action.content: None and "" are falsy
Truthy(content) == content # None /\ content # <<>>

\* `a.content or ""`
ContentOrEmpty(content) == IF Truthy(content) THEN content ELSE <<>>

----------------------------------------------------------------------------
(* Paths and locations.  A path is the sequence of its segments; an        *)
(* absolute path starts with the segment "/".  A location is an absolute,  *)
(* normalised path without the leading "/".                                *)

WIKI_DIR == <<"base", "wiki">>

IsAbsolute(path) == Len(path) > 0 /\ path[1] = "/"

\* segment names that hold two consecutive dots
DotDotNames == {"..", "v1..2.md"}

\* `".." in action.path`: a test on the text of the path, true for a parent
\* segment and for a name that holds the two dots
HasDotDot(path) == \E i \in 1..Len(path) : path[i] \in DotDotNames

RECURSIVE Normalise(_, _)
Normalise(segs, acc) ==
    IF segs = <<>> THEN acc
    ELSE IF Head(segs) = ".."
         THEN Normalise(Tail(segs),
                        IF acc = <<>> THEN acc ELSE SubSeq(acc, 1, Len(acc) - 1))
         ELSE Normalise(Tail(segs), Append(acc, Head(segs)))

\* pathlib's `base / path`, as the operating system resolves it
Join(base, path) ==
    IF IsAbsolute(path) THEN Normalise(Tail(path), <<>>)
    ELSE Normalise(path, base)

Parent(loc) == SubSeq(loc, 1, Len(loc) - 1)

InWiki(loc) ==
    Len(loc) > Len(WIKI_DIR) /\ SubSeq(loc, 1, Len(WIKI_DIR)) = WIKI_DIR

A_MD  == <<"base", "wiki", "a.md">>
DOCS  == <<"base", "wiki", "docs">>
X_OUT == <<"base", "x.md">>

\* the locations the model tracks; every other directory on the way
\* (base, base/wiki) exists and is a directory
Locs == {A_MD, DOCS, X_OUT}

Absent == [kind |-> "absent", content |-> <<>>]
Dir    == [kind |-> "dir", content |-> <<>>]
File(text) == [kind |-> "file", content |-> text]

IsDirAt(f, loc) == IF loc \in Locs THEN f[loc].kind = "dir" ELSE TRUE
Exists(f, loc)  == IF loc \in Locs THEN f[loc].kind # "absent" ELSE TRUE

\* Path.mkdir(parents=True, exist_ok=True): FileExistsError when a file is
\* in the way, here or at a parent
RECURSIVE Mkdir(_, _)
Mkdir(f, loc) ==
    IF loc \notin Locs \/ f[loc].kind = "dir" THEN [ok |-> TRUE, fs |-> f]
    ELSE IF f[loc].kind = "file" THEN [ok |-> FALSE, fs |-> f]
    ELSE LET up == Mkdir(f, Parent(loc)) IN
         IF up.ok THEN [ok |-> TRUE, fs |-> [up.fs EXCEPT ![loc] = Dir]]
         ELSE up

\* Path.write_text(text): TypeError for None, OSError for a directory
\* target or a missing parent directory
WriteText(f, loc, text) ==
    IF text = None \/ loc \notin Locs THEN [ok |-> FALSE, fs |-> f]
    ELSE IF f[loc].kind = "dir" \/ ~IsDirAt(f, Parent(loc))
         THEN [ok |-> FALSE, fs |-> f]
    ELSE [ok |-> TRUE, fs |-> [f EXCEPT ![loc] = File(text)]]

\* Path.read_text()
ReadText(f, loc) ==
    IF loc \in Locs /\ f[loc].kind = "file"
    THEN [ok |-> TRUE, content |-> f[loc].content]
    ELSE [ok |-> FALSE, content |-> <<>>]

\* Path.unlink()
Unlink(f, loc) ==
    IF loc \in Locs /\ f[loc].kind = "file"
    THEN [ok |-> TRUE, fs |-> [f EXCEPT ![loc] = Absent]]
    ELSE [ok |-> FALSE, fs |-> f]

WikiFiles(f) == [loc \in {l \in Locs : InWiki(l)} |-> f[loc]]
OutsideFiles(f) == [loc \in {l \in Locs : ~InWiki(l)} |-> f[loc]]

----------------------------------------------------------------------------
(* Actions of a model result *)

Action(t, p, c) == [type |-> t, path |-> p, content |-> c]

\* str.upper() on the action types that occur
Upper(t) ==
    CASE t \in {"write", "Write"}   -> "WRITE"
      [] t \in {"edit"}             -> "EDIT"
      [] t \in {"delete", "Delete"} -> "DELETE"
      [] t = "create"               -> "CREATE"
      [] t = "append"               -> "APPEND"
      [] OTHER                      -> t

\* the actions a model result is built from: the types the admin shell
\* knows (create, append), the types the CLI knows (write, edit, delete, in
\* any case), relative, escaping and absolute paths, absent and oversized
\* content
ActionPool ==
    { Action("create", <<"a.md">>, <<"x">>),
      Action("append", <<"a.md">>, <<"y">>),
      Action("write",  <<"a.md">>, <<"x">>),
      Action("create", <<"..", "x.md">>, <<"x">>),
      Action("write",  <<"/", "base", "wiki", "a.md">>, <<"y">>),
      Action("Delete", <<"/", "base", "wiki", "a.md">>, None),
      Action("edit",   <<"/", "base", "wiki", "docs">>, <<"x">>),
      Action("write",  <<"/", "base", "x.md">>, <<"BIG", "x">>) }

\* the action lists of a model result: none, one or two actions
Batches ==
    {<<>>} \cup {<<a>> : a \in ActionPool}
           \cup {<<a, b>> : a \in ActionPool, b \in ActionPool}

Prompts == {"p", "q"}

----------------------------------------------------------------------------
(* validate_action *)

\* validate_action refusing content of exactly the cap's length
ValidActionAtCap(a, f) ==
    /\ ~(HasDotDot(a.path) \/ IsAbsolute(a.path))
    /\ ~(Exists(f, Join(WIKI_DIR, a.path)) /\ IsDirAt(f, Join(WIKI_DIR, a.path)))
    /\ ~(Truthy(a.content) /\ ContentLen(a.content) >= MaxContentLen)

ValidAction(a, f) ==
    /\ ~(HasDotDot(a.path) \/ IsAbsolute(a.path))
    /\ ~(Exists(f, Join(WIKI_DIR, a.path)) /\ IsDirAt(f, Join(WIKI_DIR, a.path)))
    /\ ~(Truthy(a.content) /\ ContentLen(a.content) > MaxContentLen)

----------------------------------------------------------------------------
(* apply_actions of the admin shell: the execution loop, lines 391-397.    *)
(* No exception is caught: the first failing action ends the loop.         *)

AdminExecOne(a, f) ==
    LET target == Join(WIKI_DIR, a.path) IN
    IF a.type = "create" THEN
        LET made == Mkdir(f, Parent(target)) IN
        IF made.ok THEN WriteText(made.fs, target, ContentOrEmpty(a.content))
        ELSE made
    ELSE IF a.type = "append" THEN
        LET old == ReadText(f, target) IN
        IF old.ok
        THEN WriteText(f, target,
                       old.content \o <<"NL">> \o ContentOrEmpty(a.content))
        ELSE [ok |-> FALSE, fs |-> f]
    ELSE [ok |-> TRUE, fs |-> f]

\* [fs, raised, attempted]: the filesystem after the loop, whether an
\* exception left it, and how many actions were started
RECURSIVE AdminExec(_, _, _)
AdminExec(actions, i, f) ==
    IF i > Len(actions)
    THEN [fs |-> f, raised |-> FALSE, attempted |-> Len(actions)]
    ELSE LET r == AdminExecOne(actions[i], f) IN
         IF r.ok THEN AdminExec(actions, i + 1, r.fs)
         ELSE [fs |-> r.fs, raised |-> TRUE, attempted |-> i]

\* log_change: one entry, with one line per action of the batch
LogEntry(actions) ==
    [source |-> "ai",
     lines |-> [i \in 1..Len(actions) |-> <<actions[i].type, actions[i].path>>]]

----------------------------------------------------------------------------
(* _execute_pending_actions of the CLI: the loop, lines 858-888.           *)
(* WIKI_ROOT is not a name of the module linkowiki-cli.py (its only import *)
(* is local to _show_proactive_suggestions, line 901), so line 863 raises  *)
(* NameError for every path that does not start with "/"; the statement    *)
(* stands before the try block, so the exception leaves the function.      *)

CliExecOne(a, f) ==
    LET action_type == Upper(a.type)
        file_path == Join(<<>>, a.path)
    IN
    IF action_type = "WRITE" THEN
        LET made == Mkdir(f, Parent(file_path)) IN
        IF made.ok THEN WriteText(made.fs, file_path, a.content) ELSE made
    ELSE IF action_type = "EDIT" THEN
        IF Exists(f, file_path) THEN WriteText(f, file_path, a.content)
        ELSE LET made == Mkdir(f, Parent(file_path)) IN
             IF made.ok THEN WriteText(made.fs, file_path, a.content) ELSE made
    ELSE IF action_type = "DELETE" THEN
        IF Exists(f, file_path) THEN Unlink(f, file_path)
        ELSE [ok |-> TRUE, fs |-> f]
    ELSE [ok |-> TRUE, fs |-> f]

\* [fs, raised, attempted, failed]: failed holds the indices of the actions
\* whose exception the loop caught and reported
RECURSIVE CliExec(_, _, _, _)
CliExec(actions, i, f, failed) ==
    IF i > Len(actions)
    THEN [fs |-> f, raised |-> FALSE, attempted |-> Len(actions),
          failed |-> failed]
    ELSE IF ~IsAbsolute(actions[i].path)
    THEN [fs |-> f, raised |-> TRUE, attempted |-> i, failed |-> failed]
    ELSE LET r == CliExecOne(actions[i], f) IN
         CliExec(actions, i + 1, r.fs,
                 IF r.ok THEN failed ELSE failed \cup {i})

----------------------------------------------------------------------------
(* The session record of tools/session/manager.py *)

DefaultProviderId == "default-provider"

NoSession ==
    [exists |-> FALSE, write |-> FALSE, history |-> <<>>, files |-> {},
     changes |-> <<>>, pending_actions |-> <<>>, active_provider_id |-> "-"]

\* start_session: the record it builds and saves
NewSession(write) ==
    [exists |-> TRUE, write |-> write, history |-> <<>>, files |-> {},
     changes |-> <<>>, pending_actions |-> <<>>,
     active_provider_id |-> DefaultProviderId]

\* add_history: load, append, save; nothing without a record
AddHistory(s, entry) ==
    IF ~s.exists THEN s ELSE [s EXCEPT !.history = Append(@, entry)]

\* record_change: load, append, save; no caller in the repository
RecordChange(s, entry) ==
    IF ~s.exists THEN s ELSE [s EXCEPT !.changes = Append(@, entry)]

\* the same test without upper(): only the spelling DELETE counts
HasDeleteCaseSensitive(actions) ==
    \E i \in 1..Len(actions) : actions[i].type = "DELETE"

\* any(a.type.upper() == "DELETE" for a in result.actions)
HasDelete(actions) ==
    \E i \in 1..Len(actions) : Upper(actions[i].type) = "DELETE"

AllValid(actions, f) == \A i \in 1..Len(actions) : ValidAction(actions[i], f)

\* what the last handler did; staged is the action list of the model
\* result a prompt step received
Did(op, front, outcome, confirmed, attempted, failed) ==
    [op |-> op, front |-> front, outcome |-> outcome, staged |-> <<>>,
     confirmed |-> confirmed, attempted |-> attempted, failed |-> failed]

Received(did, actions) == [did EXCEPT !.staged = actions]

----------------------------------------------------------------------------
(* The provider registry of tools/ai/providers.py.  Settings are mappings  *)
(* from a setting's name to its value.                                     *)

EmptySettings == [k \in {} |-> "-"]

\* Python's None where an id, a key or a settings mapping is optional
NoId == "None"
NoSettings == [k \in {"None"} |-> "None"]
NoHandle == [model |-> <<>>, model_settings |-> EmptySettings]

One(k, v) == [x \in {k} |-> v]

\* the merge with the operands the wrong way round: defaults win
UpdateKeepsDefaults(settings, custom) ==
    [k \in DOMAIN settings \cup DOMAIN custom |->
        IF k \in DOMAIN settings THEN settings[k] ELSE custom[k]]

\* dict.copy() followed by dict.update(custom)
Update(settings, custom) ==
    [k \in DOMAIN settings \cup DOMAIN custom |->
        IF k \in DOMAIN custom THEN custom[k] ELSE settings[k]]

EffortValues == {"low", "medium", "high"}

Provider(id, family, model, reasoning, env_key, default_settings) ==
    [id |-> id, provider |-> family, model |-> model, reasoning |-> reasoning,
     env_key |-> env_key, default_settings |-> default_settings]

\* the load-time validator without the check of the effort's value
ValidateSettingsStructureNoValue(reasoning, v) ==
    LET has_reasoning_effort == "reasoning_effort" \in DOMAIN v
        has_temperature == "temperature" \in DOMAIN v
        has_top_p == "top_p" \in DOMAIN v
    IN
    IF reasoning
    THEN IF ~has_reasoning_effort THEN "effort_missing"
         ELSE IF has_temperature \/ has_top_p THEN "sampling_forbidden"
         ELSE "ok"
    ELSE IF has_reasoning_effort THEN "effort_forbidden"
         ELSE IF ~(has_temperature \/ has_top_p) THEN "sampling_missing"
         ELSE "ok"

\* the load-time validator letting a reasoning model keep temperature/top_p
ValidateSettingsStructureSampling(reasoning, v) ==
    LET has_reasoning_effort == "reasoning_effort" \in DOMAIN v
        has_temperature == "temperature" \in DOMAIN v
        has_top_p == "top_p" \in DOMAIN v
    IN
    IF reasoning
    THEN IF ~has_reasoning_effort THEN "effort_missing"
         ELSE IF v["reasoning_effort"] \notin EffortValues THEN "effort_value"
         ELSE "ok"
    ELSE IF has_reasoning_effort THEN "effort_forbidden"
         ELSE IF ~(has_temperature \/ has_top_p) THEN "sampling_missing"
         ELSE "ok"

\* ProviderConfig.validate_settings_structure, the load-time validator of
\* default_settings: "ok" or the error it raises
ValidateSettingsStructure(reasoning, v) ==
    LET has_reasoning_effort == "reasoning_effort" \in DOMAIN v
        has_temperature == "temperature" \in DOMAIN v
        has_top_p == "top_p" \in DOMAIN v
    IN
    IF reasoning
    THEN IF ~has_reasoning_effort THEN "effort_missing"
         ELSE IF has_temperature \/ has_top_p THEN "sampling_forbidden"
         ELSE IF v["reasoning_effort"] \notin EffortValues THEN "effort_value"
         ELSE "ok"
    ELSE IF has_reasoning_effort THEN "effort_forbidden"
         ELSE IF ~(has_temperature \/ has_top_p) THEN "sampling_missing"
         ELSE "ok"

\* _registry is None
NoRegistry == [loaded |-> FALSE, providers |-> <<>>, default_provider_id |-> NoId]

\* the catalog file does not exist
NoCatalog == [found |-> FALSE, schema_ok |-> FALSE, providers |-> <<>>,
              default_provider |-> NoId]

Catalog(schema_ok, providers, default_provider) ==
    [found |-> TRUE, schema_ok |-> schema_ok, providers |-> providers,
     default_provider |-> default_provider]

\* jsonschema.validate(instance=data, schema=schema): the schema document is
\* not part of the sources; whether the catalog conforms is a property of
\* the catalog
SchemaValid(cat) == cat.schema_ok

\* the loop of lines 93-95: self.providers[config.id] = config, a later
\* entry with the same id replacing an earlier one
RECURSIVE ParseProviders(_, _)
ParseProviders(list, acc) ==
    IF list = <<>> THEN [ok |-> TRUE, providers |-> acc]
    ELSE LET p == Head(list) IN
         IF ValidateSettingsStructure(p.reasoning, p.default_settings) # "ok"
         THEN [ok |-> FALSE, providers |-> acc]
         ELSE ParseProviders(Tail(list),
                  [i \in DOMAIN acc \cup {p.id} |->
                      IF i = p.id THEN p ELSE acc[i]])

\* Python truthiness of an optional string
TruthyId(id) == id # NoId /\ id # ""

\* the load without the final check that the default id is a provider
LoadAndValidateAnyDefault(cat, default_provider_id) ==
    IF ~cat.found THEN [error |-> "config_not_found", registry |-> NoRegistry]
    ELSE IF ~SchemaValid(cat)
    THEN [error |-> "schema_violation", registry |-> NoRegistry]
    ELSE LET parsed == ParseProviders(cat.providers, <<>>)
             default == IF TruthyId(default_provider_id)
                        THEN default_provider_id ELSE cat.default_provider
         IN
         IF ~parsed.ok
         THEN [error |-> "invalid_provider", registry |-> NoRegistry]
         ELSE IF DOMAIN parsed.providers = {}
         THEN [error |-> "no_providers", registry |-> NoRegistry]
         ELSE [error |-> "ok",
               registry |-> [loaded |-> TRUE, providers |-> parsed.providers,
                             default_provider_id |-> default]]

\* ProviderRegistry.__init__ and _load_and_validate: [error, registry]
LoadAndValidate(cat, default_provider_id) ==
    IF ~cat.found THEN [error |-> "config_not_found", registry |-> NoRegistry]
    ELSE IF ~SchemaValid(cat)
    THEN [error |-> "schema_violation", registry |-> NoRegistry]
    ELSE LET parsed == ParseProviders(cat.providers, <<>>)
             default == IF TruthyId(default_provider_id)
                        THEN default_provider_id ELSE cat.default_provider
         IN
         IF ~parsed.ok
         THEN [error |-> "invalid_provider", registry |-> NoRegistry]
         ELSE IF DOMAIN parsed.providers = {}
         THEN [error |-> "no_providers", registry |-> NoRegistry]
         ELSE IF default \notin DOMAIN parsed.providers
         THEN [error |-> "default_not_found", registry |-> NoRegistry]
         ELSE [error |-> "ok",
               registry |-> [loaded |-> TRUE, providers |-> parsed.providers,
                             default_provider_id |-> default]]

\* ProviderRegistry.get_provider raises for an id that is not a key
KnownProvider(reg, provider_id) == provider_id \in DOMAIN reg.providers

\* validate_settings asking a sampling model for temperature and top_p both
ValidateSettingsBothSampling(reg, provider_id, settings) ==
    IF ~KnownProvider(reg, provider_id) THEN "unknown_provider"
    ELSE IF reg.providers[provider_id].reasoning
    THEN IF "reasoning_effort" \notin DOMAIN settings THEN "effort_missing"
         ELSE IF {k \in DOMAIN settings : k \in {"temperature", "top_p"}} # {}
         THEN "sampling_forbidden"
         ELSE IF settings["reasoning_effort"] \notin EffortValues
         THEN "effort_value"
         ELSE "ok"
    ELSE IF "reasoning_effort" \in DOMAIN settings THEN "effort_forbidden"
         ELSE IF "temperature" \notin DOMAIN settings
                 \/ "top_p" \notin DOMAIN settings
         THEN "sampling_missing"
         ELSE "ok"

\* ProviderRegistry.validate_settings: "ok" or the error it raises
ValidateSettings(reg, provider_id, settings) ==
    IF ~KnownProvider(reg, provider_id) THEN "unknown_provider"
    ELSE IF reg.providers[provider_id].reasoning
    THEN IF "reasoning_effort" \notin DOMAIN settings THEN "effort_missing"
         ELSE IF {k \in DOMAIN settings : k \in {"temperature", "top_p"}} # {}
         THEN "sampling_forbidden"
         ELSE IF settings["reasoning_effort"] \notin EffortValues
         THEN "effort_value"
         ELSE "ok"
    ELSE IF "reasoning_effort" \in DOMAIN settings THEN "effort_forbidden"
         ELSE IF "temperature" \notin DOMAIN settings
                 /\ "top_p" \notin DOMAIN settings
         THEN "sampling_missing"
         ELSE "ok"

SettingsErrors == {"effort_missing", "sampling_forbidden", "effort_value",
                   "effort_forbidden", "sampling_missing"}

\* os.getenv(key): None when the variable is not set
Getenv(env, key) == IF key \in DOMAIN env THEN env[key] ELSE NoId

\* ProviderRegistry.get_api_key: `if not api_key` also refuses ""
GetApiKey(reg, env, provider_id) ==
    LET api_key == Getenv(env, reg.providers[provider_id].env_key) IN
    IF api_key = NoId \/ api_key = ""
    THEN [ok |-> FALSE, key |-> NoId] ELSE [ok |-> TRUE, key |-> api_key]

\* create_agent reading the credential before it validates the settings
CreateAgentCredentialFirst(reg, env, provider_id, custom_settings) ==
    IF ~KnownProvider(reg, provider_id)
    THEN [outcome |-> "unknown_provider", steps |-> <<"lookup">>,
          settings |-> EmptySettings, handle |-> NoHandle]
    ELSE LET provider == reg.providers[provider_id]
             settings == IF custom_settings = NoSettings
                            \/ DOMAIN custom_settings = {}
                         THEN provider.default_settings
                         ELSE Update(provider.default_settings, custom_settings)
             verdict == ValidateSettings(reg, provider_id, settings)
             api_key == GetApiKey(reg, env, provider_id)
         IN
         IF ~api_key.ok
         THEN [outcome |-> "credential_missing",
               steps |-> <<"lookup", "merge", "credential">>,
               settings |-> settings, handle |-> NoHandle]
         ELSE IF verdict # "ok"
         THEN [outcome |-> verdict,
               steps |-> <<"lookup", "merge", "credential", "validate">>,
               settings |-> settings, handle |-> NoHandle]
         ELSE IF provider.provider \notin {"anthropic", "openai"}
         THEN [outcome |-> "unsupported_provider",
               steps |-> <<"lookup", "merge", "credential", "validate">>,
               settings |-> settings, handle |-> NoHandle]
         ELSE [outcome |-> "ok",
               steps |-> <<"lookup", "merge", "credential", "validate",
                           "construct">>,
               settings |-> settings,
               handle |-> [model |-> <<provider.provider, provider.model>>,
                           model_settings |-> settings]]

\* AgentFactory.create_agent on a loaded registry.  steps lists what the
\* call did, in order; settings is the mapping it validated; handle is the
\* agent it returns, None when it raises.
CreateAgent(reg, env, provider_id, custom_settings) ==
    IF ~KnownProvider(reg, provider_id)
    THEN [outcome |-> "unknown_provider", steps |-> <<"lookup">>,
          settings |-> EmptySettings, handle |-> NoHandle]
    ELSE LET provider == reg.providers[provider_id]
             settings == IF custom_settings = NoSettings
                            \/ DOMAIN custom_settings = {}
                         THEN provider.default_settings
                         ELSE Update(provider.default_settings, custom_settings)
             verdict == ValidateSettings(reg, provider_id, settings)
             api_key == GetApiKey(reg, env, provider_id)
         IN
         IF verdict # "ok"
         THEN [outcome |-> verdict, steps |-> <<"lookup", "merge", "validate">>,
               settings |-> settings, handle |-> NoHandle]
         ELSE IF ~api_key.ok
         THEN [outcome |-> "credential_missing",
               steps |-> <<"lookup", "merge", "validate", "credential">>,
               settings |-> settings, handle |-> NoHandle]
         ELSE IF provider.provider \notin {"anthropic", "openai"}
         THEN [outcome |-> "unsupported_provider",
               steps |-> <<"lookup", "merge", "validate", "credential">>,
               settings |-> settings, handle |-> NoHandle]
         ELSE [outcome |-> "ok",
               steps |-> <<"lookup", "merge", "validate", "credential",
                           "construct">>,
               settings |-> settings,
               handle |-> [model |-> <<provider.provider, provider.model>>,
                           model_settings |-> settings]]

----------------------------------------------------------------------------
(* Catalogs, environments and arguments the registry process is run with *)

TEXT_OPENAI ==
    Provider(DefaultProviderId, "openai", "gpt-text", FALSE, "OPENAI_API_KEY",
             One("temperature", "0.2"))
REASONING_OPENAI ==
    Provider("reasoning-provider", "openai", "gpt-reasoning", TRUE,
             "OPENAI_API_KEY", One("reasoning_effort", "medium"))
TEXT_LOCAL ==
    Provider("local-provider", "mistral", "local", FALSE, "LOCAL_API_KEY",
             Update(One("top_p", "0.9"), One("max_tokens", "100")))

\* entries of a catalog: the three above and entries whose default settings
\* do not fit their reasoning flag
ProviderPool ==
    { TEXT_OPENAI, REASONING_OPENAI, TEXT_LOCAL,
      Provider("reasoning-provider", "openai", "gpt-reasoning", TRUE,
               "OPENAI_API_KEY",
               Update(One("reasoning_effort", "high"), One("temperature", "0.2"))),
      Provider("reasoning-provider", "openai", "gpt-reasoning", TRUE,
               "OPENAI_API_KEY", One("reasoning_effort", "extreme")),
      Provider("reasoning-provider", "openai", "gpt-reasoning", TRUE,
               "OPENAI_API_KEY", One("max_tokens", "100")),
      Provider("default-provider", "openai", "gpt-text", FALSE,
               "OPENAI_API_KEY", One("max_tokens", "100")),
      Provider("default-provider", "openai", "gpt-text", FALSE,
               "OPENAI_API_KEY",
               Update(One("reasoning_effort", "low"), One("top_p", "0.9"))) }

ProviderIds == {DefaultProviderId, "reasoning-provider", "local-provider",
                "ghost-provider"}

\* no catalog file; catalogs of up to two entries that conform to the
\* schema; catalogs of at most one entry that do not
Catalogs ==
    {NoCatalog} \cup
    { Catalog(TRUE, providers, default) :
        providers \in {<<>>} \cup {<<p>> : p \in ProviderPool}
                             \cup {<<p, q>> : p \in ProviderPool, q \in ProviderPool},
        default \in {NoId, DefaultProviderId, "ghost-provider"} } \cup
    { Catalog(FALSE, providers, DefaultProviderId) :
        providers \in {<<>>} \cup {<<p>> : p \in ProviderPool} }

\* the credential variables: not set, set to "", set to a key
Environs ==
    { One("LOCAL_API_KEY", "sk-local"),
      Update(One("LOCAL_API_KEY", "sk-local"), One("OPENAI_API_KEY", "")),
      Update(One("LOCAL_API_KEY", "sk-local"), One("OPENAI_API_KEY", "sk-openai")) }

\* default_provider_id as the caller of the registry passes it: None from a
\* direct construction, the configured value from get_provider_registry
CallerDefaults == {NoId, "", "reasoning-provider", "ghost-provider"}

\* settings mappings passed to validate_settings and create_agent
SettingsPool ==
    { EmptySettings,
      One("temperature", "0.5"),
      One("top_p", "0.5"),
      One("max_tokens", "200"),
      One("reasoning_effort", "low"),
      One("reasoning_effort", "extreme"),
      Update(One("reasoning_effort", "high"), One("temperature", "0.5")) }

\* what the last registry or factory call was and what it returned
Called(op, outcome, provider_id, arg, result) ==
    [op |-> op, outcome |-> outcome, provider_id |-> provider_id, arg |-> arg,
     steps |-> result.steps, settings |-> result.settings,
     handle |-> result.handle]

NoResult == [steps |-> <<>>, settings |-> EmptySettings, handle |-> NoHandle]

\* the catalog the session commands and the shells run with, and the
\* registry every such process builds from it
ReferenceCatalog ==
    Catalog(TRUE, <<TEXT_OPENAI, REASONING_OPENAI>>, DefaultProviderId)

SessionRegistry == LoadAndValidate(ReferenceCatalog, DefaultProviderId).registry

----------------------------------------------------------------------------
(* ContextMemory of tools/memory/context.py.  The instance keeps the log   *)
(* recent_actions, user_preferences and common_patterns; _save writes      *)
(* them to .linkowiki-memory.json.                                         *)

\* the entries _load and _save keep
LogCap == 50

\* the entries suggest_similar looks at, and how many it returns
SuggestWindow == 20
SuggestTop == 3

\* the relevance threshold 0.3, in ten-thousandths
ScoreThreshold == 3000

\* lines 17-19: a new instance before _load
EmptyMemory ==
    [recent_actions |-> <<>>, user_preferences |-> <<>>,
     common_patterns |-> <<>>]

NoMemoryFile ==
    [found |-> FALSE, recent_actions |-> <<>>, user_preferences |-> <<>>,
     common_patterns |-> <<>>]

\* seq[-n:]
LastN(seq, n) ==
    IF Len(seq) <= n THEN seq ELSE SubSeq(seq, Len(seq) - n + 1, Len(seq))

\* ContextMemory.__init__ with _load
Load(file) ==
    IF ~file.found THEN EmptyMemory
    ELSE [recent_actions |-> LastN(file.recent_actions, LogCap),
          user_preferences |-> file.user_preferences,
          common_patterns |-> file.common_patterns]

\* _save.  The except clause names json.JSONEncodeError, which the json
\* module does not have: when write_text raises, evaluating the clause
\* raises AttributeError, and that leaves _save.
Save(mem, file, writable) ==
    IF writable
    THEN [raised |-> FALSE,
          file |-> [found |-> TRUE,
                    recent_actions |-> LastN(mem.recent_actions, LogCap),
                    user_preferences |-> mem.user_preferences,
                    common_patterns |-> mem.common_patterns]]
    ELSE [raised |-> TRUE, file |-> file]

\* action.get('path', '').split('/')[0]
FirstSegment(path) ==
    IF path = <<>> \/ IsAbsolute(path) THEN "" ELSE path[1]

\* the key built from the last segment of the path
PatternKeyLastSegment(action) ==
    <<action.type,
      IF action.path = <<>> THEN "" ELSE action.path[Len(action.path)]>>

\* f"{type}:{first segment}", kept as the pair of its two parts
PatternKey(action) == <<action.type, FirstSegment(action.path)>>

\* sum(common_patterns.values())
RECURSIVE SumOfCounts(_)
SumOfCounts(patterns) ==
    IF DOMAIN patterns = {} THEN 0
    ELSE LET k == CHOOSE x \in DOMAIN patterns : TRUE IN
         patterns[k] + SumOfCounts([x \in DOMAIN patterns \ {k} |-> patterns[x]])

\* datetime.now().isoformat(): later than the stamp of every entry so far
MemoryEntry(log, prompt, action) ==
    [timestamp |-> IF log = <<>> THEN 1 ELSE log[Len(log)].timestamp + 1,
     prompt |-> prompt, action |-> action]

\* remember_action: [memory, file, raised]
RememberAction(mem, file, writable, action, prompt) ==
    LET key == PatternKey(action)
        held == [mem EXCEPT
                    !.recent_actions =
                        Append(@, MemoryEntry(mem.recent_actions, prompt, action)),
                    !.common_patterns =
                        Update(@, One(key, (IF key \in DOMAIN @ THEN @[key]
                                             ELSE 0) + 1))]
        saved == Save(held, file, writable)
    IN [memory |-> held, file |-> saved.file, raised |-> saved.raised]

\* linkowiki-cli.py lines 697-698: remember_action for every action of the
\* result, up to the first call that raises; calls counts the calls made
RECURSIVE RememberAll(_, _, _, _, _, _)
RememberAll(mem, file, writable, actions, prompt, i) ==
    IF i > Len(actions)
    THEN [memory |-> mem, file |-> file, raised |-> FALSE, calls |-> i - 1]
    ELSE LET r == RememberAction(mem, file, writable, actions[i], prompt) IN
         IF r.raised
         THEN [memory |-> r.memory, file |-> r.file, raised |-> TRUE,
               calls |-> i]
         ELSE RememberAll(r.memory, r.file, writable, actions, prompt, i + 1)

\* learn_preference: [memory, file, raised]
LearnPreference(mem, file, writable, key, value) ==
    LET held == [mem EXCEPT !.user_preferences = Update(@, One(key, value))]
        saved == Save(held, file, writable)
    IN [memory |-> held, file |-> saved.file, raised |-> saved.raised]

\* str.lower() on the words and prompts that occur
Lower(w) ==
    CASE w = "Generate" -> "generate"
      [] w = "Tags"     -> "tags"
      [] w = "Metadata" -> "metadata"
      [] w = "REWRITE"  -> "rewrite"
      [] w = "Struktur" -> "struktur"
      [] w = "Analyze"  -> "analyze"
      [] w = "AB"       -> "ab"
      [] OTHER          -> w

\* the prompts suggest_similar is asked about
MemoryPrompts == {"p", "ab", "ac", "ab cd"}

\* set(text.split())
Split(text) == IF text = "ab cd" THEN {"ab", "cd"} ELSE {text}

\* len(text)
StrLen(text) ==
    CASE text \in {"p", "q"}   -> 1
      [] text \in {"ab", "ac"} -> 2
      [] text = "ab cd"        -> 5

\* the characters SequenceMatcher(None, a, b) matches, of which ratio() is
\* twice the share in len(a) + len(b)
MatchingChars(a, b) ==
    CASE a = b                                              -> StrLen(a)
      [] {a, b} = {"ab", "ac"}                               -> 1
      [] {a, b} = {"ab", "ab cd"} \/ {a, b} = {"ac", "ab cd"} -> 2
      [] OTHER                                               -> 0

\* combined_score of lines 86-96 in ten-thousandths:
\* 0.6 * ratio + 0.4 * word overlap
Score(prompt, past) ==
    LET a == Lower(prompt)
        b == Lower(past)
        n == Cardinality(Split(a))
    IN (12000 * MatchingChars(a, b)) \div (StrLen(a) + StrLen(b))
       + (4000 * Cardinality(Split(a) \cap Split(b)))
             \div (IF n > 1 THEN n ELSE 1)

\* list.sort(key=score, reverse=True): stable, so of two entries with one
\* score the one met first stays first
RECURSIVE SortByScore(_)
SortByScore(seq) ==
    IF seq = <<>> THEN <<>>
    ELSE LET x == seq[Len(seq)]
             sorted == SortByScore(SubSeq(seq, 1, Len(seq) - 1))
             ahead == SelectSeq(sorted, LAMBDA y : y.score >= x.score)
             behind == SelectSeq(sorted, LAMBDA y : y.score < x.score)
         IN ahead \o <<x>> \o behind

Suggestion(entry, prompt) ==
    [action |-> entry.action, original_prompt |-> entry.prompt,
     score |-> Score(prompt, entry.prompt), timestamp |-> entry.timestamp]

\* suggest_similar over the whole log instead of recent_actions[-20:]
SuggestSimilarWholeLog(mem, prompt) ==
    LET scored == [i \in 1..Len(mem.recent_actions) |->
                      Suggestion(mem.recent_actions[i], prompt)]
        kept == SelectSeq(scored, LAMBDA x : x.score > ScoreThreshold)
        sorted == SortByScore(kept)
    IN SubSeq(sorted, 1, IF Len(sorted) < SuggestTop THEN Len(sorted)
                         ELSE SuggestTop)

\* suggest_similar
SuggestSimilar(mem, prompt) ==
    LET window == LastN(mem.recent_actions, SuggestWindow)
        scored == [i \in 1..Len(window) |-> Suggestion(window[i], prompt)]
        kept == SelectSeq(scored, LAMBDA x : x.score > ScoreThreshold)
        sorted == SortByScore(kept)
    IN SubSeq(sorted, 1, IF Len(sorted) < SuggestTop THEN Len(sorted)
                         ELSE SuggestTop)

\* what the last ContextMemory call was: calls counts the remember_action
\* calls on the instance, base is the sum of the counts it was built with
MemCalled(op, outcome, prompt, action, result, calls, base) ==
    [op |-> op, outcome |-> outcome, prompt |-> prompt, action |-> action,
     result |-> result, calls |-> calls, base |-> base]

NoAction == Action("-", <<>>, None)

\* RichSessionShell.__init__, lines 144-149; last_user_input is set by the
\* first request
NoConversation ==
    [conversation_history |-> <<>>, last_displayed_turn |-> -1,
     last_user_input |-> NoId]

\* no memory file, and no front-end that holds a memory or a conversation
MemoryAtStart ==
    /\ memory = EmptyMemory
    /\ memory_file = NoMemoryFile
    /\ memory_writable = TRUE
    /\ memcall = MemCalled("init", "-", "-", NoAction, <<>>, 0, 0)
    /\ conversation = NoConversation

----------------------------------------------------------------------------
(* Initial state: no session, no shell; the wiki holds the page a.md and   *)
(* the directory docs.                                                     *)

Init ==
    /\ session = NoSession
    /\ fs = [loc \in Locs |->
                IF loc = DOCS THEN Dir
                ELSE IF loc = A_MD THEN File(<<"w">>) ELSE Absent]
    /\ changelog = <<>>
    /\ shell = "none"
    /\ cliSession = NoSession
    /\ autoexec_enabled = FALSE
    /\ nRequests = 0
    /\ submitted = <<>>
    /\ last = Did("init", "-", "-", FALSE, 0, {})
    /\ catalog = ReferenceCatalog
    /\ environ = One("OPENAI_API_KEY", "sk-openai")
    /\ registry = NoRegistry
    /\ call = Called("init", "-", NoId, NoId, NoResult)
    /\ MemoryAtStart

----------------------------------------------------------------------------
(* Commands of linkowiki-admin.py outside a shell *)

\* start_session without the test for an existing record
StartSessionOverwrite(write) ==
    /\ shell = "none"
    /\ session' = NewSession(write)
    /\ submitted' = <<>>
    /\ last' = Did("start", "-", "started", FALSE, 0, {})
    /\ UNCHANGED regVars
    /\ UNCHANGED memVars
    /\ UNCHANGED <<fs, changelog, shell, cliSession, autoexec_enabled, nRequests>>

\* `session start [-w]`
StartSession(write) ==
    /\ shell = "none"
    /\ IF session.exists
       THEN /\ UNCHANGED <<session, submitted>>
            /\ last' = Did("start", "-", "already_running", FALSE, 0, {})
       ELSE /\ session' = NewSession(write)
            /\ submitted' = <<>>
            /\ last' = Did("start", "-", "started", FALSE, 0, {})
    /\ UNCHANGED regVars
    /\ UNCHANGED memVars
    /\ UNCHANGED <<fs, changelog, shell, cliSession, autoexec_enabled, nRequests>>

\* `session end`
EndSession ==
    /\ shell = "none"
    /\ session' = NoSession
    /\ last' = Did("end", "-", "ended", FALSE, 0, {})
    /\ UNCHANGED regVars
    /\ UNCHANGED memVars
    /\ UNCHANGED <<fs, changelog, shell, cliSession, autoexec_enabled,
                   nRequests, submitted>>

\* `session shell`: session_shell returns at once without a session
OpenAdmin ==
    /\ shell = "none"
    /\ session.exists
    /\ shell' = "admin"
    /\ last' = Did("open", "admin", "opened", FALSE, 0, {})
    /\ UNCHANGED regVars
    /\ UNCHANGED memVars
    /\ UNCHANGED <<session, fs, changelog, cliSession, autoexec_enabled,
                   nRequests, submitted>>

\* exit, quit, end of input: either shell
ExitShell ==
    /\ shell # "none"
    /\ shell' = "none"
    /\ cliSession' = NoSession
    /\ autoexec_enabled' = FALSE
    /\ memory' = EmptyMemory
    /\ conversation' = NoConversation
    /\ last' = Did("exit", shell, "exited", FALSE, 0, {})
    /\ UNCHANGED regVars
    /\ UNCHANGED <<session, fs, changelog, nRequests, submitted, memory_file,
                   memory_writable, memcall>>

----------------------------------------------------------------------------
(* The admin shell, session_shell of linkowiki-admin.py.  Every handler    *)
(* loads the record from disk, so the shell keeps no copy of its own.      *)

\* apply_actions(actions, write) with the answer given to confirm():
\* [outcome, fs, changelog, attempted]
ApplyActions(actions, write, answer, f, log) ==
    IF ~AllValid(actions, f)
    THEN [outcome |-> "invalid", fs |-> f, changelog |-> log, attempted |-> 0]
    ELSE IF ~write
    THEN [outcome |-> "readonly", fs |-> f, changelog |-> log, attempted |-> 0]
    ELSE IF ~answer
    THEN [outcome |-> "declined", fs |-> f, changelog |-> log, attempted |-> 0]
    ELSE LET run == AdminExec(actions, 1, f) IN
         IF run.raised
         THEN [outcome |-> "raised", fs |-> run.fs, changelog |-> log,
               attempted |-> run.attempted]
         ELSE [outcome |-> "applied", fs |-> run.fs,
               changelog |-> Append(log, LogEntry(actions)),
               attempted |-> run.attempted]

\* the `apply` command.  An exception of apply_actions is not caught by
\* session_shell: the process ends and the record is not saved.
AdminApply ==
    /\ shell = "admin"
    /\ LET s == session
           actions == s.pending_actions
       IN
       IF actions = <<>>
       THEN /\ last' = Did("apply", "admin", "no_pending", FALSE, 0, {})
            /\ UNCHANGED <<session, fs, changelog, shell>>
       ELSE \E answer \in BOOLEAN :
            LET r == ApplyActions(actions, s.write, answer, fs, changelog) IN
            /\ fs' = r.fs
            /\ changelog' = r.changelog
            /\ IF r.outcome \in {"invalid", "raised"}
               THEN /\ shell' = "none"
                    /\ UNCHANGED session
               ELSE /\ session' = [s EXCEPT !.pending_actions = <<>>]
                    /\ UNCHANGED shell
            /\ last' = Did("apply", "admin", r.outcome,
                           r.outcome \in {"raised", "applied"}, r.attempted, {})
    /\ UNCHANGED regVars
    /\ UNCHANGED memVars
    /\ UNCHANGED <<cliSession, autoexec_enabled, nRequests, submitted>>

\* the `reject` command
AdminReject ==
    /\ shell = "admin"
    /\ session' = [session EXCEPT !.pending_actions = <<>>]
    /\ last' = Did("reject", "admin", "rejected", FALSE, 0, {})
    /\ UNCHANGED regVars
    /\ UNCHANGED memVars
    /\ UNCHANGED <<fs, changelog, shell, cliSession, autoexec_enabled,
                   nRequests, submitted>>

\* any other input: a request to the model.  ok = FALSE is run_ai raising.
AdminPrompt(cmd, ok, actions) ==
    /\ shell = "admin"
    /\ nRequests < MaxRequests
    /\ nRequests' = nRequests + 1
    /\ submitted' = Append(submitted, cmd)
    /\ LET s == AddHistory(session, cmd) IN
       IF ok /\ actions # <<>>
       THEN /\ session' = [s EXCEPT !.pending_actions = actions]
            /\ last' = Received(Did("prompt", "admin", "staged", FALSE, 0, {}),
                                 actions)
       ELSE /\ session' = s
            /\ last' = Did("prompt", "admin",
                           IF ok THEN "no_actions" ELSE "ai_error",
                           FALSE, 0, {})
    /\ UNCHANGED regVars
    /\ UNCHANGED memVars
    /\ UNCHANGED <<fs, changelog, shell, cliSession, autoexec_enabled>>

----------------------------------------------------------------------------
(* The Rich CLI, RichSessionShell of linkowiki-cli.py.  run() loads the    *)
(* record once into self.session; every later save_session(self.session)   *)
(* writes that in-memory copy over the file.                               *)

\* run(), lines 991-994
OpenCli ==
    /\ shell = "none"
    /\ shell' = "cli"
    /\ autoexec_enabled' = FALSE
    /\ memory' = Load(memory_file)
    /\ memcall' = MemCalled("load", "returned", "-", NoAction, <<>>, 0,
                            SumOfCounts(Load(memory_file).common_patterns))
    /\ conversation' = NoConversation
    /\ IF session.exists
       THEN /\ cliSession' = session
            /\ UNCHANGED <<session, submitted>>
       ELSE /\ session' = NewSession(TRUE)
            /\ cliSession' = NewSession(TRUE)
            /\ submitted' = <<>>
    /\ last' = Did("open", "cli", "opened", FALSE, 0, {})
    /\ UNCHANGED regVars
    /\ UNCHANGED <<fs, changelog, nRequests, memory_file, memory_writable>>

\* `/autoexec on` and `/autoexec off`
SetAutoexec(on) ==
    /\ shell = "cli"
    /\ autoexec_enabled' = on
    /\ last' = Did("autoexec", "cli", IF on THEN "on" ELSE "off",
                   FALSE, 0, {})
    /\ UNCHANGED regVars
    /\ UNCHANGED memVars
    /\ UNCHANGED <<session, fs, changelog, shell, cliSession, nRequests,
                   submitted>>

\* _execute_pending_actions on the copy `mem` of the session:
\* [outcome, fs, mem, saved]; saved tells whether save_session ran
ExecutePendingActions(mem, f) ==
    IF mem.pending_actions = <<>>
    THEN [outcome |-> "no_pending", fs |-> f, mem |-> mem, saved |-> FALSE,
          attempted |-> 0, failed |-> {}]
    ELSE LET run == CliExec(mem.pending_actions, 1, f, {}) IN
         IF run.raised
         THEN [outcome |-> "name_error", fs |-> run.fs, mem |-> mem,
               saved |-> FALSE, attempted |-> run.attempted,
               failed |-> run.failed]
         ELSE [outcome |-> "completed", fs |-> run.fs,
               mem |-> [mem EXCEPT !.pending_actions = <<>>],
               saved |-> TRUE, attempted |-> run.attempted,
               failed |-> run.failed]

\* the `apply` command, lines 1125-1127; run() catches what escapes
CliApply ==
    /\ shell = "cli"
    /\ LET r == ExecutePendingActions(cliSession, fs) IN
       /\ fs' = r.fs
       /\ cliSession' = r.mem
       /\ session' = IF r.saved THEN r.mem ELSE session
       /\ last' = Did("apply", "cli", r.outcome, FALSE, r.attempted,
                      r.failed)
    /\ UNCHANGED regVars
    /\ UNCHANGED memVars
    /\ UNCHANGED <<changelog, shell, autoexec_enabled, nRequests, submitted>>

\* the `reject` command, lines 1129-1136
CliReject ==
    /\ shell = "cli"
    /\ IF cliSession.pending_actions # <<>>
       THEN /\ cliSession' = [cliSession EXCEPT !.pending_actions = <<>>]
            /\ session' = cliSession'
            /\ last' = Did("reject", "cli", "rejected", FALSE, 0, {})
       ELSE /\ UNCHANGED <<cliSession, session>>
            /\ last' = Did("reject", "cli", "no_pending", FALSE, 0, {})
    /\ UNCHANGED regVars
    /\ UNCHANGED memVars
    /\ UNCHANGED <<fs, changelog, shell, autoexec_enabled, nRequests,
                   submitted>>

\* What process_ai_request with _process_ai_standard does to the session
\* record, the pending actions and the wiki.  ok = FALSE is run_ai raising;
\* raised tells that a remember_action call of lines 697-698 raised; both
\* exceptions are caught by process_ai_request.
ProcessAiSession(user_input, is_retry, ok, actions, raised) ==
    /\ shell = "cli"
    /\ nRequests < MaxRequests
    /\ nRequests' = nRequests + 1
    /\ submitted' = IF is_retry THEN submitted ELSE Append(submitted, user_input)
    /\ LET onDisk == IF is_retry THEN session ELSE AddHistory(session, user_input)
       IN
       IF ~ok \/ actions = <<>>
       THEN /\ session' = onDisk
            /\ UNCHANGED <<cliSession, fs>>
            /\ last' = Did("prompt", "cli",
                           IF ok THEN "no_actions" ELSE "ai_error",
                           FALSE, 0, {})
       ELSE LET staged == [cliSession EXCEPT !.pending_actions = actions] IN
            IF raised
            THEN /\ session' = onDisk
                 /\ UNCHANGED <<cliSession, fs>>
                 /\ last' = Received(Did("prompt", "cli", "memory_error",
                                          FALSE, 0, {}), actions)
            ELSE IF ~autoexec_enabled
            THEN /\ cliSession' = staged
                 /\ session' = staged
                 /\ UNCHANGED fs
                 /\ last' = Received(Did("prompt", "cli", "staged", FALSE,
                                          0, {}), actions)
            ELSE IF HasDelete(actions)
            THEN /\ cliSession' = staged
                 /\ session' = staged
                 /\ UNCHANGED fs
                 /\ last' = Received(Did("prompt", "cli", "delete_guard",
                                          FALSE, 0, {}), actions)
            ELSE LET r == ExecutePendingActions(staged, fs) IN
                 /\ cliSession' = r.mem
                 /\ session' = r.mem
                 /\ fs' = r.fs
                 /\ last' = Received(
                                Did("prompt", "cli",
                                    IF r.outcome = "completed"
                                    THEN "auto_completed" ELSE "auto_raised",
                                    FALSE, r.attempted, r.failed),
                                actions)
    /\ UNCHANGED regVars
    /\ UNCHANGED <<changelog, shell, autoexec_enabled>>

\* the request without the note of which turn was just displayed
ProcessAiRequestUntracked(user_input, is_retry, ok, actions) ==
    LET asked == IF is_retry THEN conversation
                 ELSE [conversation EXCEPT
                          !.last_user_input = user_input,
                          !.conversation_history =
                              Append(@, [role |-> "user", content |-> user_input])]
        answered == [asked EXCEPT
                        !.conversation_history =
                            Append(@, [role |-> "assistant", content |-> "message"])]
        mem == RememberAll(memory, memory_file, memory_writable, actions,
                           user_input, 1)
    IN
    /\ ProcessAiSession(user_input, is_retry, ok, actions, ok /\ mem.raised)
    /\ conversation' = IF ok THEN answered ELSE asked
    /\ IF ~ok \/ actions = <<>>
       THEN UNCHANGED <<memory, memory_file, memcall>>
       ELSE /\ memory' = mem.memory
            /\ memory_file' = mem.file
            /\ memcall' = MemCalled("remember_action",
                                    IF mem.raised THEN "raised" ELSE "returned",
                                    user_input, actions[mem.calls], <<>>,
                                    memcall.calls + mem.calls, memcall.base)
    /\ UNCHANGED memory_writable

\* process_ai_request with _process_ai_standard; _process_ai_streaming
\* prints a note and calls _process_ai_standard, so streaming_enabled makes
\* no difference to the state
ProcessAiRequest(user_input, is_retry, ok, actions) ==
    LET asked == IF is_retry THEN conversation
                 ELSE [conversation EXCEPT
                          !.last_user_input = user_input,
                          !.conversation_history =
                              Append(@, [role |-> "user", content |-> user_input])]
        answered == [asked EXCEPT
                        !.conversation_history =
                            Append(@, [role |-> "assistant", content |-> "message"]),
                        !.last_displayed_turn =
                            Len(asked.conversation_history)]
        mem == RememberAll(memory, memory_file, memory_writable, actions,
                           user_input, 1)
    IN
    /\ ProcessAiSession(user_input, is_retry, ok, actions, ok /\ mem.raised)
    /\ conversation' = IF ok THEN answered ELSE asked
    /\ IF ~ok \/ actions = <<>>
       THEN UNCHANGED <<memory, memory_file, memcall>>
       ELSE /\ memory' = mem.memory
            /\ memory_file' = mem.file
            /\ memcall' = MemCalled("remember_action",
                                    IF mem.raised THEN "raised" ELSE "returned",
                                    user_input, actions[mem.calls], <<>>,
                                    memcall.calls + mem.calls, memcall.base)
    /\ UNCHANGED memory_writable

\* any input that is no command: process_ai_request(user_input).  Here the
\* memory file can be written, so remember_action returns; what the memory
\* and the conversation hold is followed by ProcessAiRequest.
CliPrompt(cmd, ok, actions) ==
    /\ ProcessAiSession(cmd, FALSE, ok, actions, FALSE)
    /\ UNCHANGED memVars

\* `/retry`, lines 1113-1121: the last input again, with is_retry=True
Retry(ok, actions) ==
    /\ conversation.last_user_input # NoId
    /\ ProcessAiRequest(conversation.last_user_input, TRUE, ok, actions)

\* `/clear` and `/cls`, lines 1053-1058
ClearConversation ==
    /\ shell = "cli"
    /\ conversation' = [conversation EXCEPT !.conversation_history = <<>>]
    /\ last' = Did("clear", "cli", "cleared", FALSE, 0, {})
    /\ UNCHANGED regVars
    /\ UNCHANGED <<session, fs, changelog, shell, cliSession,
                   autoexec_enabled, nRequests, submitted>>
    /\ UNCHANGED <<memory, memory_file, memory_writable, memcall>>

\* _create_conversation_panel, lines 426-431: the positions of the turns it
\* shows, counted from 1
PanelTurns(conv) ==
    LET n == Len(conv.conversation_history) IN
    IF conv.last_displayed_turn = n - 1
    THEN IF n > 5 THEN (n - 5)..(n - 1) ELSE 1..(n - 1)
    ELSE (IF n > 5 THEN n - 4 ELSE 1)..n

----------------------------------------------------------------------------
(* Operations of tools/session/manager.py that the admin shell calls for   *)
(* `/model set <id>` and `/attach <path>`; the shell catches and prints    *)
(* what they raise.  They are also run with no shell open.                 *)

\* the working directory of the process, against which resolve() works
CWD == <<"base">>

\* ids given to `/model set`, paths given to `/attach`
ModelIds == {DefaultProviderId, "reasoning-provider", "ghost-provider"}
AttachPaths ==
    { <<"wiki", "a.md">>,
      <<"wiki", "docs", "..", "a.md">>,
      <<"/", "base", "wiki", "docs">>,
      <<"/", "base", "x.md">> }

\* s["files"][key] = text
SetFile(files, key, text) ==
    {e \in files : e[1] # key} \cup {<<key, text>>}

\* set_active_provider without the lookup in the registry
SetActiveProviderUnchecked(provider_id) ==
    /\ shell # "cli"
    /\ IF ~session.exists
       THEN /\ UNCHANGED session
            /\ last' = Did("set_provider", shell, "no_session", FALSE, 0, {})
       ELSE /\ session' = [session EXCEPT !.active_provider_id = provider_id]
            /\ last' = Did("set_provider", shell, "switched", FALSE, 0, {})
    /\ UNCHANGED regVars
    /\ UNCHANGED memVars
    /\ UNCHANGED <<fs, changelog, shell, cliSession, autoexec_enabled,
                   nRequests, submitted>>

\* set_active_provider
SetActiveProvider(provider_id) ==
    /\ shell # "cli"
    /\ IF ~session.exists
       THEN /\ UNCHANGED session
            /\ last' = Did("set_provider", shell, "no_session", FALSE, 0, {})
       ELSE IF ~KnownProvider(SessionRegistry, provider_id)
       THEN /\ UNCHANGED session
            /\ last' = Did("set_provider", shell, "unknown_provider", FALSE,
                           0, {})
       ELSE /\ session' = [session EXCEPT !.active_provider_id = provider_id]
            /\ last' = Did("set_provider", shell, "switched", FALSE, 0, {})
    /\ UNCHANGED regVars
    /\ UNCHANGED memVars
    /\ UNCHANGED <<fs, changelog, shell, cliSession, autoexec_enabled,
                   nRequests, submitted>>

\* attach_file storing the text under the path as it was typed
AttachFileUnresolved(path) ==
    /\ shell # "cli"
    /\ LET p == Join(CWD, path) IN
       IF ~session.exists
       THEN /\ UNCHANGED session
            /\ last' = Did("attach", shell, "no_session", FALSE, 0, {})
       ELSE IF ~Exists(fs, p) \/ ~ReadText(fs, p).ok
       THEN /\ UNCHANGED session
            /\ last' = Did("attach", shell, "not_found", FALSE, 0, {})
       ELSE /\ session' = [session EXCEPT
                              !.files = SetFile(@, path, ReadText(fs, p).content)]
            /\ last' = Did("attach", shell, "attached", FALSE, 0, {})
    /\ UNCHANGED regVars
    /\ UNCHANGED memVars
    /\ UNCHANGED <<fs, changelog, shell, cliSession, autoexec_enabled,
                   nRequests, submitted>>

\* attach_file: p.is_file() is ReadText succeeding
AttachFile(path) ==
    /\ shell # "cli"
    /\ LET p == Join(CWD, path) IN
       IF ~session.exists
       THEN /\ UNCHANGED session
            /\ last' = Did("attach", shell, "no_session", FALSE, 0, {})
       ELSE IF ~Exists(fs, p) \/ ~ReadText(fs, p).ok
       THEN /\ UNCHANGED session
            /\ last' = Did("attach", shell, "not_found", FALSE, 0, {})
       ELSE /\ session' = [session EXCEPT
                              !.files = SetFile(@, p, ReadText(fs, p).content)]
            /\ last' = Did("attach", shell, "attached", FALSE, 0, {})
    /\ UNCHANGED regVars
    /\ UNCHANGED memVars
    /\ UNCHANGED <<fs, changelog, shell, cliSession, autoexec_enabled,
                   nRequests, submitted>>

----------------------------------------------------------------------------

Next ==
    \/ \E write \in BOOLEAN : StartSession(write)
    \/ EndSession
    \/ OpenAdmin
    \/ OpenCli
    \/ ExitShell
    \/ AdminApply
    \/ AdminReject
    \/ \E cmd \in Prompts, ok \in BOOLEAN :
           \E actions \in (IF ok THEN Batches ELSE {<<>>}) :
               AdminPrompt(cmd, ok, actions)
    \/ \E on \in BOOLEAN : SetAutoexec(on)
    \/ CliApply
    \/ CliReject
    \/ \E cmd \in Prompts, ok \in BOOLEAN :
           \E actions \in (IF ok THEN Batches ELSE {<<>>}) :
               CliPrompt(cmd, ok, actions)

Spec == Init /\ [][Next]_vars

\* the CLI alone: the session is started outside or by the CLI itself
NextCli ==
    \/ \E write \in BOOLEAN : StartSession(write)
    \/ EndSession
    \/ OpenCli
    \/ ExitShell
    \/ \E on \in BOOLEAN : SetAutoexec(on)
    \/ CliApply
    \/ CliReject
    \/ \E cmd \in Prompts, ok \in BOOLEAN :
           \E actions \in (IF ok THEN Batches ELSE {<<>>}) :
               CliPrompt(cmd, ok, actions)

SpecCli == Init /\ [][NextCli]_vars

\* model results of one action of a type the admin shell executes
SessionBatches ==
    {<<>>} \cup {<<a>> : a \in {b \in ActionPool : b.type \in {"create", "append"}}}

\* the session commands, the manager's operations and the admin shell
NextSession ==
    \/ \E write \in BOOLEAN : StartSession(write)
    \/ EndSession
    \/ OpenAdmin
    \/ ExitShell
    \/ AdminApply
    \/ AdminReject
    \/ \E cmd \in Prompts, ok \in BOOLEAN :
           \E actions \in (IF ok THEN SessionBatches ELSE {<<>>}) :
               AdminPrompt(cmd, ok, actions)
    \/ \E id \in ModelIds : SetActiveProvider(id)
    \/ \E path \in AttachPaths : AttachFile(path)

SpecSession == Init /\ [][NextSession]_vars

----------------------------------------------------------------------------
(* A process that uses the registry: get_provider_registry,                *)
(* reset_provider_registry, validate_settings and create_agent             *)

InitRegistry ==
    /\ session = NoSession
    /\ fs = [loc \in Locs |->
                IF loc = DOCS THEN Dir
                ELSE IF loc = A_MD THEN File(<<"w">>) ELSE Absent]
    /\ changelog = <<>>
    /\ shell = "none"
    /\ cliSession = NoSession
    /\ autoexec_enabled = FALSE
    /\ nRequests = 0
    /\ submitted = <<>>
    /\ last = Did("init", "-", "-", FALSE, 0, {})
    /\ catalog \in Catalogs
    /\ environ \in Environs
    /\ registry = NoRegistry
    /\ call = Called("init", "-", NoId, NoId, NoResult)
    /\ MemoryAtStart

\* get_provider_registry: the singleton is built on the first call; a
\* constructor that raises leaves _registry None
GetProviderRegistry(default_provider_id) ==
    /\ IF registry.loaded
       THEN /\ UNCHANGED registry
            /\ call' = Called("load", "cached", NoId, default_provider_id,
                              NoResult)
       ELSE LET r == LoadAndValidate(catalog, default_provider_id) IN
            /\ registry' = r.registry
            /\ call' = Called("load", r.error, NoId, default_provider_id,
                              NoResult)
    /\ UNCHANGED <<catalog, environ>>
    /\ UNCHANGED sessVars
    /\ UNCHANGED memVars

\* reset_provider_registry
ResetProviderRegistry ==
    /\ registry' = NoRegistry
    /\ call' = Called("reset", "ok", NoId, NoId, NoResult)
    /\ UNCHANGED <<catalog, environ>>
    /\ UNCHANGED sessVars
    /\ UNCHANGED memVars

\* registry.validate_settings(provider_id, settings) on the loaded registry
ValidateSettingsCall(provider_id, settings) ==
    /\ registry.loaded
    /\ call' = Called("validate_settings",
                      ValidateSettings(registry, provider_id, settings),
                      provider_id, settings, NoResult)
    /\ UNCHANGED <<catalog, environ, registry>>
    /\ UNCHANGED sessVars
    /\ UNCHANGED memVars

\* AgentFactory.create_agent(provider_id, ..., custom_settings): line 48
\* gets the registry, building it when this is the first use
CreateAgentCall(default_provider_id, provider_id, custom_settings) ==
    /\ LET r == IF registry.loaded
                THEN [error |-> "ok", registry |-> registry]
                ELSE LoadAndValidate(catalog, default_provider_id)
       IN
       /\ registry' = r.registry
       /\ IF r.error # "ok"
          THEN call' = Called("create_agent", "config_error", provider_id,
                              custom_settings, NoResult)
          ELSE LET made == CreateAgent(r.registry, environ, provider_id,
                                       custom_settings) IN
               call' = Called("create_agent", made.outcome, provider_id,
                              custom_settings, made)
    /\ UNCHANGED <<catalog, environ>>
    /\ UNCHANGED sessVars
    /\ UNCHANGED memVars

NextRegistry ==
    \/ \E d \in CallerDefaults : GetProviderRegistry(d)
    \/ ResetProviderRegistry
    \/ \E id \in ProviderIds, settings \in SettingsPool :
           ValidateSettingsCall(id, settings)
    \/ \E d \in (IF registry.loaded THEN {NoId} ELSE CallerDefaults),
          id \in ProviderIds, custom \in SettingsPool \cup {NoSettings} :
           CreateAgentCall(d, id, custom)

SpecRegistry == InitRegistry /\ [][NextRegistry]_vars

----------------------------------------------------------------------------
(* validate_action on its own: every input action against every wiki *)

\* paths: a page (present or not), the docs entry, a parent segment, a name
\* with two dots, an absolute path, and the empty path, which is the wiki
\* root itself
ValidatePaths ==
    { <<"a.md">>, <<"docs">>, <<"..", "x.md">>, <<"v1..2.md">>,
      <<"/", "base", "wiki", "a.md">>, <<>> }

\* contents: absent, empty, one character, 49,999 + 1, exactly 50,000 and
\* 50,001 characters
ValidateContents ==
    { None, <<>>, <<"x">>, <<"BIG">>, <<"BIG", "x">> }

ValidateInputs ==
    { Action(t, p, c) : t \in {"create", "delete"}, p \in ValidatePaths,
                        c \in ValidateContents }

InitValidate ==
    /\ session = NoSession
    /\ fs \in { [loc \in Locs |->
                    IF loc = DOCS THEN docs ELSE IF loc = A_MD THEN page
                    ELSE Absent] :
                docs \in {Dir, Absent, File(<<"x">>)},
                page \in {File(<<"w">>), Absent} }
    /\ changelog = <<>>
    /\ shell = "none"
    /\ cliSession = NoSession
    /\ autoexec_enabled = FALSE
    /\ nRequests = 0
    /\ submitted = <<>>
    /\ last = Did("init", "-", "-", FALSE, 0, {})
    /\ catalog = ReferenceCatalog
    /\ environ = One("OPENAI_API_KEY", "sk-openai")
    /\ registry = NoRegistry
    /\ call = Called("init", "-", NoId, NoId, NoResult)
    /\ MemoryAtStart

\* validate_action(action): it returns or raises ValueError
ValidateActionCall(a) ==
    /\ last' = Received(Did("validate", "admin",
                            IF ValidAction(a, fs) THEN "accepted" ELSE "rejected",
                            FALSE, 0, {}),
                        <<a>>)
    /\ UNCHANGED regVars
    /\ UNCHANGED memVars
    /\ UNCHANGED <<session, fs, changelog, shell, cliSession, autoexec_enabled,
                   nRequests, submitted>>

NextValidate == \E a \in ValidateInputs : ValidateActionCall(a)

SpecValidate == InitValidate /\ [][NextValidate]_vars

----------------------------------------------------------------------------
(* ProviderRouter of tools/ai/routing.py and create_agent_for_task of      *)
(* tools/ai/agent_factory.py                                               *)

NANO_TEXT == "openai-gpt5-nano-text"
MINI_TEXT == "openai-gpt5-mini-text"
REASONING == "openai-gpt5-reasoning"
GPT5_TEXT == "openai-gpt5-text"

ROUTING_MAP ==
    [t \in {"tags", "abstract", "metadata", "bulk", "rewrite", "summary",
            "structure", "outline", "analysis", "default"} |->
        CASE t \in {"tags", "abstract", "metadata"}      -> NANO_TEXT
          [] t \in {"bulk", "rewrite", "summary"}        -> MINI_TEXT
          [] t \in {"structure", "outline", "analysis"}  -> REASONING
          [] OTHER                                       -> GPT5_TEXT]

\* ROUTING_MAP[task_type]: "KeyError" stands for the exception of a key
\* that is not in the table
RouteSubscript(task_type) ==
    IF task_type \in DOMAIN ROUTING_MAP THEN ROUTING_MAP[task_type]
    ELSE "KeyError"

\* ProviderRouter.route: ROUTING_MAP.get(task_type, ROUTING_MAP["default"])
Route(task_type) ==
    IF task_type \in DOMAIN ROUTING_MAP THEN ROUTING_MAP[task_type]
    ELSE ROUTING_MAP["default"]

\* the rules of detect_task_type in the order of its if statements
KeywordRules ==
    << [task |-> "tags",
        keywords |-> {"tag", "tags", "tagging", "schlagwort"}],
       [task |-> "abstract",
        keywords |-> {"abstract", "zusammenfassung", "kurz"}],
       [task |-> "metadata",
        keywords |-> {"metadata", "metadaten", "eigenschaft"}],
       [task |-> "bulk",
        keywords |-> {"bulk", "masse", "viele", "alle"}],
       [task |-> "rewrite",
        keywords |-> {"rewrite", "umschreiben", "überarbeiten"}],
       [task |-> "summary",
        keywords |-> {"summarize", "summary", "zusammenfassen"}],
       [task |-> "structure",
        keywords |-> {"structure", "struktur", "organisieren"}],
       [task |-> "outline",
        keywords |-> {"outline", "gliederung", "übersicht"}],
       [task |-> "analysis",
        keywords |-> {"analyze", "analysis", "analysiere"}] >>

\* the words a prompt is made of: a prompt is the sequence of its words
Words ==
    {"Generate", "Tags", "stage", "abstract", "Metadata", "bulk", "parallel",
     "REWRITE", "summary", "Struktur", "outline", "Analyze", "wiki"}

\* the keywords that are substrings of a word, letter case as it stands:
\* "tag" is in "stage", "alle" is in "parallel", none is in "Tags"
KeywordsIn(w) ==
    CASE w = "tags"     -> {"tag", "tags"}
      [] w = "stage"    -> {"tag"}
      [] w = "abstract" -> {"abstract"}
      [] w = "metadata" -> {"metadata"}
      [] w = "bulk"     -> {"bulk"}
      [] w = "parallel" -> {"alle"}
      [] w = "rewrite"  -> {"rewrite"}
      [] w = "summary"  -> {"summary"}
      [] w = "struktur" -> {"struktur"}
      [] w = "outline"  -> {"outline"}
      [] w = "analyze"  -> {"analyze"}
      [] OTHER          -> {}

\* `any(kw in text for kw in keywords)`: no keyword holds a blank, so a
\* keyword is in the text when it is in one of its words
AnyKeywordIn(text, keywords) ==
    \E i \in 1..Len(text) : KeywordsIn(text[i]) \cap keywords # {}

RECURSIVE FirstRule(_, _)
FirstRule(text, i) ==
    IF i > Len(KeywordRules) THEN "default"
    ELSE IF AnyKeywordIn(text, KeywordRules[i].keywords)
         THEN KeywordRules[i].task
         ELSE FirstRule(text, i + 1)

\* detect_task_type without prompt.lower()
DetectTaskTypeCaseSensitive(prompt) == FirstRule(prompt, 1)

\* ProviderRouter.detect_task_type
DetectTaskType(prompt) ==
    FirstRule([i \in 1..Len(prompt) |-> Lower(prompt[i])], 1)

\* ProviderRouter.route_auto
RouteAuto(prompt) == Route(DetectTaskType(prompt))

\* catalogs that hold an entry for every id of ROUTING_MAP, for some of
\* them, and for none
RouterCatalogs ==
    LET text == Provider(GPT5_TEXT, "openai", "gpt-5", FALSE,
                         "OPENAI_API_KEY", One("temperature", "0.2"))
        nano == Provider(NANO_TEXT, "openai", "gpt-5-nano", FALSE,
                         "OPENAI_API_KEY", One("temperature", "0.2"))
        mini == Provider(MINI_TEXT, "openai", "gpt-5-mini", FALSE,
                         "OPENAI_API_KEY", One("temperature", "0.2"))
        reasoning == Provider(REASONING, "openai", "gpt-5", TRUE,
                              "OPENAI_API_KEY",
                              One("reasoning_effort", "medium"))
    IN { Catalog(TRUE, <<text, nano, mini, reasoning>>, GPT5_TEXT),
         Catalog(TRUE, <<text, reasoning>>, GPT5_TEXT),
         Catalog(TRUE, <<nano, mini, reasoning>>, NANO_TEXT),
         ReferenceCatalog }

TaskTypes == DOMAIN ROUTING_MAP \cup {"unknown-task", "reasoning", ""}

\* default_provider_id as get_provider_registry passes it: not configured,
\* or the fallback of tools/config.py
RouterDefaults == {NoId, GPT5_TEXT}

RouterPrompts ==
    {<<>>} \cup {<<w>> : w \in Words} \cup {<<v, w>> : v \in Words, w \in Words}

InitRouter ==
    /\ session = NoSession
    /\ fs = [loc \in Locs |->
                IF loc = DOCS THEN Dir
                ELSE IF loc = A_MD THEN File(<<"w">>) ELSE Absent]
    /\ changelog = <<>>
    /\ shell = "none"
    /\ cliSession = NoSession
    /\ autoexec_enabled = FALSE
    /\ nRequests = 0
    /\ submitted = <<>>
    /\ last = Did("init", "-", "-", FALSE, 0, {})
    /\ catalog \in RouterCatalogs
    /\ environ \in Environs
    /\ registry = NoRegistry
    /\ call = Called("init", "-", NoId, NoId, NoResult)
    /\ MemoryAtStart

\* ProviderRouter.route(task_type)
RouteCall(task_type) ==
    /\ call' = Called("route",
                      IF Route(task_type) = "KeyError" THEN "raised" ELSE "ok",
                      Route(task_type), task_type, NoResult)
    /\ UNCHANGED <<catalog, environ, registry>>
    /\ UNCHANGED sessVars
    /\ UNCHANGED memVars

\* ProviderRouter.detect_task_type(prompt); outcome is the type it returns
DetectTaskTypeCall(prompt) ==
    /\ call' = Called("detect_task_type", DetectTaskType(prompt), NoId,
                      prompt, NoResult)
    /\ UNCHANGED <<catalog, environ, registry>>
    /\ UNCHANGED sessVars
    /\ UNCHANGED memVars

\* ProviderRouter.route_auto(prompt)
RouteAutoCall(prompt) ==
    /\ call' = Called("route_auto", "ok", RouteAuto(prompt), prompt, NoResult)
    /\ UNCHANGED <<catalog, environ, registry>>
    /\ UNCHANGED sessVars
    /\ UNCHANGED memVars

\* create_agent_for_task(task_type, ..., custom_settings): route, then
\* AgentFactory.create_agent with the routed id
CreateAgentForTask(default_provider_id, task_type, custom_settings) ==
    /\ LET provider_id == Route(task_type)
           r == IF registry.loaded
                THEN [error |-> "ok", registry |-> registry]
                ELSE LoadAndValidate(catalog, default_provider_id)
       IN
       /\ registry' = r.registry
       /\ IF r.error # "ok"
          THEN call' = Called("create_agent_for_task", "config_error",
                              provider_id, task_type, NoResult)
          ELSE LET made == CreateAgent(r.registry, environ, provider_id,
                                       custom_settings) IN
               call' = Called("create_agent_for_task", made.outcome,
                              provider_id, task_type, made)
    /\ UNCHANGED <<catalog, environ>>
    /\ UNCHANGED sessVars
    /\ UNCHANGED memVars

NextRouter ==
    \/ \E d \in RouterDefaults : GetProviderRegistry(d)
    \/ \E t \in TaskTypes : RouteCall(t)
    \/ \E p \in RouterPrompts : DetectTaskTypeCall(p)
    \/ \E p \in RouterPrompts : RouteAutoCall(p)
    \/ \E d \in (IF registry.loaded THEN {NoId} ELSE RouterDefaults),
          t \in TaskTypes, custom \in {NoSettings, One("max_tokens", "200")} :
           CreateAgentForTask(d, t, custom)

SpecRouter == InitRouter /\ [][NextRouter]_vars

----------------------------------------------------------------------------
(* A ContextMemory instance used directly: remember_action,                *)
(* learn_preference, suggest_similar and clear, with the memory file       *)
(* changing between writable and read-only                                 *)

\* a memory file left by 49 earlier calls: the 29 oldest entries came from
\* the prompt "ab cd", the 20 after them from four prompts in turn
PreloadedFile ==
    LET old == Action("write", <<"docs", "old.md">>, <<"x">>)
        prompt(k) == IF k < 30 THEN "ab cd"
                     ELSE CASE k % 4 = 0 -> "p"
                            [] k % 4 = 1 -> "ac"
                            [] k % 4 = 2 -> "ab"
                            [] OTHER     -> "AB"
    IN [found |-> TRUE,
        recent_actions |->
            [k \in 1..(LogCap - 1) |->
                [timestamp |-> k, prompt |-> prompt(k), action |-> old]],
        user_preferences |-> <<>>,
        common_patterns |-> One(PatternKey(old), LogCap - 1)]

\* the calls made: <<action, prompt>>
RememberInputs ==
    { <<Action("write", <<"docs", "n.md">>, <<"x">>), "ab cd">>,
      <<Action("write", <<"notes.md">>, <<"x">>), "ac">>,
      <<Action("edit", <<"/", "base", "wiki", "a.md">>, <<"y">>), "AB">> }

InitMemory ==
    /\ session = NoSession
    /\ fs = [loc \in Locs |->
                IF loc = DOCS THEN Dir
                ELSE IF loc = A_MD THEN File(<<"w">>) ELSE Absent]
    /\ changelog = <<>>
    /\ shell = "none"
    /\ cliSession = NoSession
    /\ autoexec_enabled = FALSE
    /\ nRequests = 0
    /\ submitted = <<>>
    /\ last = Did("init", "-", "-", FALSE, 0, {})
    /\ catalog = ReferenceCatalog
    /\ environ = One("OPENAI_API_KEY", "sk-openai")
    /\ registry = NoRegistry
    /\ call = Called("init", "-", NoId, NoId, NoResult)
    /\ memory_file \in {NoMemoryFile, PreloadedFile}
    /\ memory = Load(memory_file)
    /\ memory_writable = TRUE
    /\ memcall = MemCalled("load", "returned", "-", NoAction, <<>>, 0,
                           SumOfCounts(memory.common_patterns))
    /\ conversation = NoConversation

\* memory.remember_action(action, prompt)
RememberActionCall(action, prompt) ==
    /\ memcall.calls < MaxMemoryCalls
    /\ LET r == RememberAction(memory, memory_file, memory_writable, action,
                               prompt) IN
       /\ memory' = r.memory
       /\ memory_file' = r.file
       /\ memcall' = MemCalled("remember_action",
                               IF r.raised THEN "raised" ELSE "returned",
                               prompt, action, <<>>, memcall.calls + 1,
                               memcall.base)
    /\ UNCHANGED <<memory_writable, conversation>>
    /\ UNCHANGED sessVars
    /\ UNCHANGED regVars

\* memory.learn_preference(key, value)
LearnPreferenceCall(key, value) ==
    /\ LET r == LearnPreference(memory, memory_file, memory_writable, key,
                                value) IN
       /\ memory' = r.memory
       /\ memory_file' = r.file
       /\ memcall' = MemCalled("learn_preference",
                               IF r.raised THEN "raised" ELSE "returned",
                               key, NoAction, <<>>, memcall.calls,
                               memcall.base)
    /\ UNCHANGED <<memory_writable, conversation>>
    /\ UNCHANGED sessVars
    /\ UNCHANGED regVars

\* memory.suggest_similar(prompt)
SuggestSimilarCall(prompt) ==
    /\ memcall' = MemCalled("suggest_similar", "returned", prompt, NoAction,
                            SuggestSimilar(memory, prompt), memcall.calls,
                            memcall.base)
    /\ UNCHANGED <<memory, memory_file, memory_writable, conversation>>
    /\ UNCHANGED sessVars
    /\ UNCHANGED regVars

\* memory.clear()
ClearCall ==
    /\ memory' = EmptyMemory
    /\ memory_file' = NoMemoryFile
    /\ memcall' = MemCalled("clear", "returned", "-", NoAction, <<>>, 0, 0)
    /\ UNCHANGED <<memory_writable, conversation>>
    /\ UNCHANGED sessVars
    /\ UNCHANGED regVars

\* the permissions of the memory file change
SetMemoryWritable(writable) ==
    /\ memory_writable # writable
    /\ memory_writable' = writable
    /\ UNCHANGED <<memory, memory_file, memcall, conversation>>
    /\ UNCHANGED sessVars
    /\ UNCHANGED regVars

NextMemory ==
    \/ \E in \in RememberInputs : RememberActionCall(in[1], in[2])
    \/ LearnPreferenceCall("language", "de")
    \/ \E p \in MemoryPrompts : SuggestSimilarCall(p)
    \/ ClearCall
    \/ \E w \in BOOLEAN : SetMemoryWritable(w)

SpecMemory == InitMemory /\ [][NextMemory]_vars

----------------------------------------------------------------------------
(* The Rich CLI with its memory and its conversation followed, the memory  *)
(* file writable or not                                                    *)

CliMemoryBatches ==
    { <<>>,
      <<Action("write", <<"/", "base", "wiki", "a.md">>, <<"y">>)>>,
      <<Action("edit", <<"/", "base", "wiki", "docs">>, <<"x">>),
        Action("Delete", <<"/", "base", "wiki", "a.md">>, None)>> }

InitCliMemory ==
    /\ session = NoSession
    /\ fs = [loc \in Locs |->
                IF loc = DOCS THEN Dir
                ELSE IF loc = A_MD THEN File(<<"w">>) ELSE Absent]
    /\ changelog = <<>>
    /\ shell = "none"
    /\ cliSession = NoSession
    /\ autoexec_enabled = FALSE
    /\ nRequests = 0
    /\ submitted = <<>>
    /\ last = Did("init", "-", "-", FALSE, 0, {})
    /\ catalog = ReferenceCatalog
    /\ environ = One("OPENAI_API_KEY", "sk-openai")
    /\ registry = NoRegistry
    /\ call = Called("init", "-", NoId, NoId, NoResult)
    /\ memory = EmptyMemory
    /\ memory_file = NoMemoryFile
    /\ memory_writable \in BOOLEAN
    /\ memcall = MemCalled("init", "-", "-", NoAction, <<>>, 0, 0)
    /\ conversation = NoConversation

NextCliMemory ==
    \/ OpenCli
    \/ ExitShell
    \/ \E on \in BOOLEAN : SetAutoexec(on)
    \/ CliApply
    \/ CliReject
    \/ \E cmd \in Prompts, ok \in BOOLEAN, actions \in CliMemoryBatches :
           ProcessAiRequest(cmd, FALSE, ok, actions)
    \/ \E ok \in BOOLEAN, actions \in CliMemoryBatches : Retry(ok, actions)
    \/ ClearConversation

SpecCliMemory == InitCliMemory /\ [][NextCliMemory]_vars

----------------------------------------------------------------------------
(* Properties *)

\* the batch an `apply` or `reject` of the running front-end works on
PendingOf == IF shell = "cli" THEN cliSession.pending_actions
             ELSE session.pending_actions

\* an `apply` step that had a batch to work on
AppliedBatch == last'.op = "apply" /\ last'.outcome # "no_pending"

\* C1: in a session whose write flag is false no step creates, overwrites
\* or deletes a wiki file.
C1_ReadOnlyNeverWrites ==
    [][(session.exists /\ ~session.write)
          => WikiFiles(fs') = WikiFiles(fs)]_vars

\* C2: every step that executes actions against the filesystem works on a
\* batch whose actions all pass validation, and no step writes outside the
\* wiki root.
C2_ExecutedOnlyIfValidated ==
    [][/\ (AppliedBatch /\ last'.attempted > 0) => AllValid(PendingOf, fs)
       /\ OutsideFiles(fs') = OutsideFiles(fs)]_vars

\* the claim's own reading of "delete action", case-insensitive
C3_ContainsDelete(actions) ==
    \E i \in 1..Len(actions) : actions[i].type \in {"delete", "Delete", "DELETE"}

C4_AllOrNothing ==
    [][(AppliedBatch /\ ~AllValid(PendingOf, fs))
          => (fs' = fs /\ last'.outcome = "invalid")]_vars

\* C5: with write enabled and auto-execute off, apply executes an action
\* only after the confirmation was answered yes; a declined confirmation
\* changes neither the filesystem nor an audit log.
C5_ConfirmBeforeExecute ==
    [][(AppliedBatch /\ session.write /\ ~autoexec_enabled)
          => /\ (fs' # fs \/ last'.attempted > 0) => last'.confirmed
             /\ last'.outcome = "declined"
                   => /\ fs' = fs
                      /\ changelog' = changelog
                      /\ session'.changes = session.changes]_vars

\* C6: a successful apply empties pendingActions and appends one entry per
\* applied action to the session's changes; no other step modifies changes.
C6_AuditPerAction ==
    [][IF AppliedBatch /\ last'.outcome = "applied"
       THEN /\ session'.pending_actions = <<>>
            /\ Len(session'.changes) =
                   Len(session.changes) + Len(session.pending_actions)
       ELSE (session.exists /\ session'.exists /\ last'.op # "start")
               => session'.changes = session.changes]_vars

\* C7: reject empties pendingActions and changes nothing else of the
\* persisted session or of the filesystem.
C7_RejectFrame ==
    [][last'.op = "reject"
          => /\ session'.pending_actions = <<>>
             /\ fs' = fs
             /\ changelog' = changelog
             /\ session' = [session EXCEPT !.pending_actions = <<>>]]_vars

\* the claim's semantics of one action: write and edit set the file,
\* creating parent directories; delete removes the file if present
C8_ApplyOne(a, f) ==
    LET loc == Join(WIKI_DIR, a.path) IN
    IF a.type \in {"write", "edit"}
    THEN [Mkdir(f, Parent(loc)).fs EXCEPT ![loc] = File(ContentOrEmpty(a.content))]
    ELSE IF a.type = "delete" /\ f[loc].kind = "file"
    THEN [f EXCEPT ![loc] = Absent]
    ELSE f

RECURSIVE C8_ApplyAll(_, _)
C8_ApplyAll(actions, f) ==
    IF actions = <<>> THEN f
    ELSE C8_ApplyAll(Tail(actions), C8_ApplyOne(Head(actions), f))

C8_InVocabulary(actions) ==
    \A i \in 1..Len(actions) : actions[i].type \in {"write", "edit", "delete"}

\* C8: after a confirmed apply of a valid batch of write, edit and delete
\* actions the wiki files are what applying the actions one by one, in list
\* order, to the prior state gives.
C8_SequentialSemantics ==
    [][(AppliedBatch /\ last'.confirmed /\ AllValid(PendingOf, fs)
           /\ C8_InVocabulary(PendingOf))
          => WikiFiles(fs') = WikiFiles(C8_ApplyAll(PendingOf, fs))]_vars

\* C9: when a batch is executed, no failure of an action leaves the apply
\* operation: the operation returns normally and has attempted every action.
C9_FailureDoesNotAbort ==
    [][(AppliedBatch /\ last'.attempted > 0)
          => /\ last'.outcome \notin {"raised", "name_error"}
             /\ last'.attempted = Len(PendingOf)]_vars

\* C10: the persisted history holds every prompt submitted in the session,
\* once and in submission order.
C10_HistoryComplete ==
    session.exists => session.history = submitted

----------------------------------------------------------------------------
(* Properties of the provider registry and the agent factory *)

\* the reasoning/sampling rule as the specification words it
SettingsRule(reasoning, s) ==
    IF reasoning
    THEN /\ "reasoning_effort" \in DOMAIN s
         /\ s["reasoning_effort"] \in {"low", "medium", "high"}
         /\ "temperature" \notin DOMAIN s
         /\ "top_p" \notin DOMAIN s
    ELSE /\ "reasoning_effort" \notin DOMAIN s
         /\ ("temperature" \in DOMAIN s \/ "top_p" \in DOMAIN s)

\* defaultSettings with every key of customSettings added or replaced
MergedSettings(default_settings, custom_settings) ==
    LET custom == IF custom_settings = NoSettings THEN EmptySettings
                  ELSE custom_settings
    IN [k \in DOMAIN default_settings \cup DOMAIN custom |->
           IF k \in DOMAIN custom THEN custom[k] ELSE default_settings[k]]

\* a create_agent call that found its provider in the registry
CreatedFor == /\ call'.op = "create_agent"
              /\ registry'.loaded
              /\ call'.provider_id \in DOMAIN registry'.providers

\* C11: every provider of a loaded registry satisfies the settings rule, and
\* a registry is loaded only from a catalog all of whose providers do.
C11_LoadedProvidersFollowRule ==
    registry.loaded =>
        /\ \A id \in DOMAIN registry.providers :
               SettingsRule(registry.providers[id].reasoning,
                            registry.providers[id].default_settings)
        /\ \A i \in 1..Len(catalog.providers) :
               SettingsRule(catalog.providers[i].reasoning,
                            catalog.providers[i].default_settings)

\* C11 witness: a registry loaded with a reasoning and a sampling provider
C11_Witness ==
    /\ registry.loaded
    /\ call.op = "load" /\ call.outcome = "ok"
    /\ \E a, b \in DOMAIN registry.providers :
           registry.providers[a].reasoning /\ ~registry.providers[b].reasoning

\* C12: validate_settings succeeds exactly when the mapping satisfies the
\* rule for the provider, fails with the unknown-provider error exactly for
\* an id that is not in the registry, with a settings error otherwise, and
\* leaves the registry as it was.
C12_ValidateSettingsExact ==
    [][call'.op = "validate_settings" =>
          LET id == call'.provider_id
              known == id \in DOMAIN registry.providers
          IN /\ registry' = registry
             /\ (call'.outcome = "unknown_provider") <=> ~known
             /\ known =>
                  /\ (call'.outcome = "ok") <=>
                         SettingsRule(registry.providers[id].reasoning, call'.arg)
                  /\ (call'.outcome \in SettingsErrors) <=>
                         ~SettingsRule(registry.providers[id].reasoning, call'.arg)]_vars

\* C12 witness: {temperature: 0.5} was refused for the reasoning provider
C12_Witness ==
    /\ call.op = "validate_settings"
    /\ call.provider_id = "reasoning-provider"
    /\ call.arg = One("temperature", "0.5")
    /\ call.outcome \in SettingsErrors

\* C13: create_agent does its steps in the order lookup, merge, validate,
\* credential, construct; when the merged settings break the rule it fails
\* with the settings error, has not read the credential and has built no
\* handle.
C13_SettingsBeforeCredential ==
    [][CreatedFor =>
          LET p == registry'.providers[call'.provider_id]
              order == <<"lookup", "merge", "validate", "credential", "construct">>
          IN /\ Len(call'.steps) <= Len(order)
             /\ call'.steps = SubSeq(order, 1, Len(call'.steps))
             /\ ~SettingsRule(p.reasoning,
                              MergedSettings(p.default_settings, call'.arg))
                  => /\ call'.outcome \in SettingsErrors
                     /\ \A i \in 1..Len(call'.steps) :
                            call'.steps[i] \notin {"credential", "construct"}
                     /\ call'.handle = NoHandle]_vars

\* C13 witness: {temperature: 0.5} on the reasoning provider was refused
\* while the credential is set
C13_Witness ==
    /\ call.op = "create_agent"
    /\ call.provider_id = "reasoning-provider"
    /\ call.arg = One("temperature", "0.5")
    /\ call.outcome \in SettingsErrors
    /\ Getenv(environ, "OPENAI_API_KEY") = "sk-openai"

\* C14: the settings create_agent validates, and binds to the handle it
\* returns, are the provider's defaults overridden by the custom settings;
\* the registry's providers are the same after the call.
C14_MergeOverrides ==
    [][CreatedFor =>
          LET p == registry'.providers[call'.provider_id] IN
          /\ call'.settings = MergedSettings(p.default_settings, call'.arg)
          /\ call'.outcome = "ok"
                => call'.handle.model_settings =
                       MergedSettings(p.default_settings, call'.arg)
          /\ registry.loaded => registry' = registry]_vars

\* C14 witness: an agent was built for the default provider with top_p
\* added to its default temperature
C14_Witness ==
    /\ call.op = "create_agent" /\ call.outcome = "ok"
    /\ call.provider_id = DefaultProviderId
    /\ call.arg = One("top_p", "0.5")
    /\ call.handle.model_settings =
           Update(One("temperature", "0.2"), One("top_p", "0.5"))
    /\ registry.providers[DefaultProviderId].default_settings =
           One("temperature", "0.2")

\* C15: the default settings of every loaded provider pass
\* validate_settings, and create_agent without custom settings ends with an
\* agent, the missing-credential error or the unsupported-family error.
C15_DefaultsAlwaysValid ==
    [][/\ registry'.loaded =>
            \A id \in DOMAIN registry'.providers :
                ValidateSettings(registry', id,
                                 registry'.providers[id].default_settings) = "ok"
       /\ (CreatedFor /\ call'.arg \in {NoSettings, EmptySettings})
            => call'.outcome \in {"ok", "credential_missing",
                                  "unsupported_provider"}]_vars

\* C15 witness: create_agent without custom settings stopped at the missing
\* credential of a loaded provider
C15_Witness ==
    /\ call.op = "create_agent" /\ call.arg = NoSettings
    /\ registry.loaded
    /\ call.provider_id \in DOMAIN registry.providers
    /\ call.outcome = "credential_missing"

\* the default id a load works with: the caller's when given, else the
\* catalog's
C16_DefaultOf(given, cat) ==
    IF given \notin {NoId, ""} THEN given ELSE cat.default_provider

\* C16: a loaded registry has providers and its default id is one of them
\* and is the caller's id when given, else the catalog's; a load from a
\* catalog without providers or without that default id among them fails.
C16_DefaultAmongProviders ==
    [][/\ registry'.loaded =>
            /\ DOMAIN registry'.providers # {}
            /\ registry'.default_provider_id \in DOMAIN registry'.providers
       /\ (call'.op = "load" /\ ~registry.loaded) =>
            LET default == C16_DefaultOf(call'.arg, catalog) IN
            /\ registry'.loaded => registry'.default_provider_id = default
            /\ (\/ catalog.providers = <<>>
                \/ default = NoId
                \/ \A i \in 1..Len(catalog.providers) :
                       catalog.providers[i].id # default)
                 => (~registry'.loaded /\ call'.outcome # "ok")]_vars

\* C16 witness: loaded with the caller's default id, which differs from the
\* catalog's
C16_Witness ==
    /\ call.op = "load" /\ call.outcome = "ok"
    /\ call.arg = "reasoning-provider"
    /\ catalog.default_provider = DefaultProviderId
    /\ registry.loaded
    /\ registry.default_provider_id = "reasoning-provider"

----------------------------------------------------------------------------
(* Properties of the session store *)

C18_ActiveProviderKnown ==
    [][/\ \A id \in ModelIds :
            (SetActiveProvider(id) /\ session.exists) =>
                IF id \in DOMAIN SessionRegistry.providers
                THEN /\ session' = [session EXCEPT !.active_provider_id = id]
                     /\ last'.outcome = "switched"
                ELSE /\ session' = session
                     /\ last'.outcome = "unknown_provider"
       /\ session'.exists =>
              session'.active_provider_id \in DOMAIN SessionRegistry.providers]_vars

\* C18 witness: an unknown id was refused after the provider had been
\* switched, and the switched provider is still the active one
C18_Witness ==
    /\ last.op = "set_provider" /\ last.outcome = "unknown_provider"
    /\ session.exists
    /\ session.active_provider_id = "reasoning-provider"

\* the location a path of `/attach` resolves to
C19_Resolved(path) == Join(CWD, path)

\* C19: attachFile fails without a session, creating none, and fails for a
\* path that is no existing regular file, the record unchanged; else it sets
\* the one entry resolved path -> content read now and changes nothing else.
C19_AttachFrame ==
    [][\A path \in AttachPaths :
          AttachFile(path) =>
              LET p == C19_Resolved(path) IN
              IF ~session.exists
              THEN session' = session /\ last'.outcome = "no_session"
              ELSE IF ~(p \in Locs /\ fs[p].kind = "file")
              THEN session' = session /\ last'.outcome = "not_found"
              ELSE /\ last'.outcome = "attached"
                   /\ <<p, fs[p].content>> \in session'.files
                   /\ \A e \in session'.files :
                          e[1] = p => e[2] = fs[p].content
                   /\ {e \in session'.files : e[1] # p} =
                          {e \in session.files : e[1] # p}
                   /\ [session' EXCEPT !.files = {}] =
                          [session EXCEPT !.files = {}]]_vars

\* C19 witness: a.md was attached through a path with a parent segment, after
\* the page had been changed
C19_Witness ==
    /\ last.op = "attach" /\ last.outcome = "attached"
    /\ session.exists
    /\ session.files = {<<A_MD, fs[A_MD].content>>}
    /\ fs[A_MD].content # <<"w">>

----------------------------------------------------------------------------
(* Properties of validate_action *)

\* the rejection rule as the specification words it
C20_Rejects(a, f) ==
    \/ \E i \in 1..Len(a.path) : a.path[i] \in {"..", "v1..2.md"}
    \/ (a.path # <<>> /\ a.path[1] = "/")
    \/ LET loc == Join(WIKI_DIR, a.path) IN
       IF loc \in Locs THEN f[loc].kind = "dir" ELSE TRUE
    \/ (a.content # None /\ ContentLen(a.content) > 50000)

\* C20: validate rejects an action exactly when its path holds "..", starts
\* with "/" or names an existing directory, or its content is longer than
\* 50,000 characters; it changes neither the filesystem nor the session.
C20_ValidateExact ==
    [][last'.op = "validate" =>
          LET a == last'.staged[1] IN
          /\ (last'.outcome = "rejected") <=> C20_Rejects(a, fs)
          /\ (last'.outcome = "accepted") <=> ~C20_Rejects(a, fs)
          /\ fs' = fs
          /\ session' = session
          /\ changelog' = changelog]_vars

\* C20 witness: content of exactly 50,000 characters for a page that does
\* not exist yet was accepted
C20_Witness ==
    /\ last.op = "validate" /\ last.outcome = "accepted"
    /\ last.staged[1].path = <<"a.md">>
    /\ fs[A_MD] = Absent
    /\ last.staged[1].content = <<"BIG">>
    /\ ContentLen(last.staged[1].content) = 50000

----------------------------------------------------------------------------
(* The provider router *)

\* the tier the claim puts a task type in: 1 nano, 2 mini, 3 reasoning,
\* 0 the default entry and every type outside the table
C21_Tier(task_type) ==
    CASE task_type \in {"tags", "abstract", "metadata"}      -> 1
      [] task_type \in {"bulk", "rewrite", "summary"}        -> 2
      [] task_type \in {"structure", "outline", "analysis"}  -> 3
      [] OTHER                                               -> 0

\* C21: route is total and never raises: the types of one tier (tags,
\* abstract, metadata; bulk, rewrite, summary; structure, outline, analysis)
\* all get one provider id, and default and every type outside the table get
\* the id of the default entry.
C21_RouteTotal ==
    call.op = "route" =>
        /\ call.outcome = "ok"
        /\ \A u \in TaskTypes :
               C21_Tier(u) = C21_Tier(call.arg) =>
                   RouteSubscript(IF u \in DOMAIN ROUTING_MAP THEN u ELSE "default")
                       = call.provider_id
        /\ C21_Tier(call.arg) = 0 => call.provider_id = ROUTING_MAP["default"]

C21_Witness ==
    /\ call.op = "route"
    /\ call.arg = "unknown-task"
    /\ call.provider_id = GPT5_TEXT

\* the claim's order of the rules
C22_Order ==
    <<"tags", "abstract", "metadata", "bulk", "rewrite", "summary",
      "structure", "outline", "analysis">>

\* a keyword of the rule for task_type occurs in the prompt, letter case
\* ignored
C22_Occurs(prompt, task_type) ==
    \E r \in 1..Len(KeywordRules), i \in 1..Len(prompt) :
        /\ KeywordRules[r].task = task_type
        /\ KeywordsIn(Lower(prompt[i])) \cap KeywordRules[r].keywords # {}

\* C22: detectTaskType ignores letter case and returns the type of the
\* first rule, in the order tags, abstract, metadata, bulk, rewrite, summary,
\* structure, outline, analysis, with a keyword in the prompt, so a nano-tier
\* type wins over a mini-tier type and that over a reasoning-tier type; no
\* keyword yields default.
C22_FirstMatchWins ==
    call.op = "detect_task_type" =>
        LET hits == {k \in 1..Len(C22_Order) : C22_Occurs(call.arg, C22_Order[k])}
        IN
        /\ hits = {} => call.outcome = "default"
        /\ hits # {} =>
               /\ \E k \in hits : /\ call.outcome = C22_Order[k]
                                  /\ \A j \in hits : k <= j
               /\ \A j \in hits : C21_Tier(call.outcome) <= C21_Tier(C22_Order[j])

C22_Witness ==
    /\ call.op = "detect_task_type"
    /\ call.arg = <<"Analyze", "Tags">>
    /\ call.outcome = "tags"

\* C23: route and routeAuto return, without raising, an id of the loaded
\* registry, and createAgentForTask never fails with the unknown-provider
\* error.
C23_RoutedIdKnown ==
    registry.loaded =>
        /\ call.op \in {"route", "route_auto"} =>
               /\ call.outcome = "ok"
               /\ KnownProvider(registry, call.provider_id)
        /\ call.op = "create_agent_for_task" =>
               call.outcome # "unknown_provider"

----------------------------------------------------------------------------
(* The contextual memory *)

\* the stamps of a log follow one another: nothing in between is missing
C24_InOrder(log) ==
    \A i \in 1..(Len(log) - 1) : log[i + 1].timestamp = log[i].timestamp + 1

\* C24: after any sequence of rememberAction calls the log of the instance
\* holds at most 50 entries, the most recently remembered ones in the order
\* they were remembered, and so does recentActions of the persisted record.
C24_LogCapped ==
    /\ Len(memory.recent_actions) <= 50
    /\ C24_InOrder(memory.recent_actions)
    /\ memory_file.found =>
           /\ Len(memory_file.recent_actions) <= 50
           /\ C24_InOrder(memory_file.recent_actions)

\* C25: when writing the memory record fails, rememberAction and
\* learnPreference still return normally, and the actions of a model result
\* are staged all the same.
C25_MemoryFailureSwallowed ==
    /\ memcall.op \in {"remember_action", "learn_preference"} =>
           memcall.outcome = "returned"
    /\ (last.op = "prompt" /\ last.front = "cli" /\ last.staged # <<>>) =>
           last.outcome # "memory_error"

\* C26: suggestSimilar looks at the 20 most recent entries only and returns
\* at most 3 of them, each scoring above 0.3, in non-increasing order of
\* score; no entry of the 20 that it leaves out scores above 0.3 and above a
\* returned one; an empty log gives an empty list.
C26_SuggestTopThree ==
    memcall.op = "suggest_similar" =>
        LET log == memory.recent_actions
            res == memcall.result
            recent == {log[i] : i \in {j \in 1..Len(log) : j > Len(log) - 20}}
            returned == {res[i].timestamp : i \in 1..Len(res)}
        IN
        /\ Len(res) <= 3
        /\ Cardinality(returned) = Len(res)
        /\ \A i \in 1..Len(res) :
               /\ res[i].score > 3000
               /\ \E e \in recent :
                      /\ e.timestamp = res[i].timestamp
                      /\ e.prompt = res[i].original_prompt
                      /\ e.action = res[i].action
                      /\ Score(memcall.prompt, e.prompt) = res[i].score
        /\ \A i \in 1..Len(res), j \in 1..Len(res) :
               i < j => res[i].score >= res[j].score
        /\ \A e \in recent :
               e.timestamp \notin returned =>
                   ~ /\ Score(memcall.prompt, e.prompt) > 3000
                     /\ \E i \in 1..Len(res) :
                            Score(memcall.prompt, e.prompt) > res[i].score
        /\ log = <<>> => res = <<>>

C26_Witness ==
    /\ memcall.op = "suggest_similar"
    /\ memcall.prompt = "ab cd"
    /\ Len(memory.recent_actions) > 20
    /\ Score("ab cd", memory.recent_actions[1].prompt) = 10000
    /\ Len(memcall.result) = 3
    /\ memcall.result[1].score < 10000

\* the mark of the last turn of the conversation
C27_LastTurnTracked ==
    /\ conversation.conversation_history # <<>>
    /\ conversation.conversation_history[
           Len(conversation.conversation_history)].role = "assistant"
    /\ conversation.last_displayed_turn =
           Len(conversation.conversation_history) - 1
    /\ Len(conversation.conversation_history) \notin PanelTurns(conversation)

\* C27 as claimed: after every processed AI request the history ends with
\* the assistant entry of that request, last_displayed_turn is its index and
\* the next panel leaves it out.
C27_EveryRequestTracked ==
    (last.op = "prompt" /\ last.front = "cli") => C27_LastTurnTracked

C27_Assistants(conv) ==
    Cardinality({i \in 1..Len(conv.conversation_history) :
                    conv.conversation_history[i].role = "assistant"})

\* C27: each AI request for which the model returns a result appends
\* exactly one assistant entry to the conversation history and sets
\* last_displayed_turn to its index, so that the turn is left out of the
\* next panel; a request whose model call raises appends no assistant entry
\* and leaves last_displayed_turn as it was.
C27_AnsweredRequestTracked ==
    [][ (nRequests' = nRequests + 1 /\ shell = "cli") =>
            LET h == conversation.conversation_history
                g == conversation'.conversation_history
            IN
            /\ Len(g) >= Len(h)
            /\ SubSeq(g, 1, Len(h)) = h
            /\ IF last'.outcome = "ai_error"
               THEN /\ C27_Assistants(conversation') = C27_Assistants(conversation)
                    /\ conversation'.last_displayed_turn =
                           conversation.last_displayed_turn
               ELSE /\ C27_Assistants(conversation') =
                           C27_Assistants(conversation) + 1
                    /\ Len(g) <= Len(h) + 2
                    /\ C27_LastTurnTracked' ]_vars

C27_Witness ==
    /\ last.op = "prompt"
    /\ last.front = "cli"
    /\ last.outcome = "no_actions"
    /\ Len(conversation.conversation_history) = 4
    /\ conversation.last_displayed_turn = 3
    /\ PanelTurns(conversation) = 1..3

\* C28: staging replaces: a model result with at least one action makes
\* pendingActions exactly its action list, in order, and what was pending
\* before is dropped without being executed (with autoexec on, the list that
\* is executed at once is that list and no other); a result with no actions
\* leaves pendingActions unchanged.
C28_StagingReplaces ==
    [][ (nRequests' = nRequests + 1) =>
            IF last'.staged # <<>>
            THEN \/ /\ session'.pending_actions = last'.staged
                    /\ shell = "cli" =>
                           cliSession'.pending_actions = last'.staged
                    /\ last'.attempted <= Len(last'.staged)
                    /\ ~(shell = "cli" /\ autoexec_enabled) => fs' = fs
                 \/ /\ shell = "cli"
                    /\ autoexec_enabled
                    /\ last'.outcome = "auto_completed"
                    /\ last'.attempted = Len(last'.staged)
                    /\ session'.pending_actions = <<>>
            ELSE /\ session'.pending_actions = session.pending_actions
                 /\ cliSession'.pending_actions = cliSession.pending_actions
                 /\ fs' = fs ]_vars

\* C29: in the admin shell `apply` empties pendingActions whenever
\* apply_actions returns (applied, read-only, declined); only a validation
\* failure leaves them as they were.
C29_ApplyEmptiesPending ==
    (last.op = "apply" /\ last.front = "admin" /\ last.outcome # "no_pending") =>
        /\ last.outcome \in {"applied", "readonly", "declined"} =>
               session.pending_actions = <<>>
        /\ session.pending_actions # <<>> => last.outcome = "invalid"

\* the key the claim names
C30_Key(action) ==
    <<action.type,
      IF action.path = <<>> \/ action.path[1] = "/" THEN ""
      ELSE action.path[1]>>

\* C30: the counts of commonPatterns add up to the number of rememberAction
\* calls (from an empty memory; in general to what the instance was built
\* with plus the calls made on it), each call adds one to the one key
\* "{action type}:{first path segment}", and no count ever decreases, also
\* when the log drops old entries.
C30_CountsFollowCalls ==
    /\ [](SumOfCounts(memory.common_patterns) = memcall.base + memcall.calls)
    /\ [][ /\ memcall'.calls = memcall.calls + 1 =>
               LET key == C30_Key(memcall'.action)
                   old == memory.common_patterns
                   new == memory'.common_patterns
               IN
               /\ DOMAIN new = DOMAIN old \cup {key}
               /\ new[key] = (IF key \in DOMAIN old THEN old[key] ELSE 0) + 1
               /\ \A k \in DOMAIN old \ {key} : new[k] = old[k]
           /\ memcall'.op # "clear" =>
               \A k \in DOMAIN memory.common_patterns :
                   /\ k \in DOMAIN memory'.common_patterns
                   /\ memory'.common_patterns[k] >= memory.common_patterns[k]
       ]_vars

C30_Witness ==
    /\ memcall.op = "remember_action"
    /\ memory_file.found
    /\ Len(memory.recent_actions) > 50
    /\ Len(memory_file.recent_actions) = 50
    /\ memory_file.recent_actions[1].timestamp > 1
    /\ SumOfCounts(memory.common_patterns) = 51
    /\ Cardinality(DOMAIN memory.common_patterns) = 2

====
